---- MODULE Spec2Model ----
(***************************************************************************)
(* ock: row/column slicing of delimited text.                              *)
(*                                                                         *)
(* Texts (rows, cells, selection expressions, regex patterns) are          *)
(* sequences of one-character strings.  A compiled regex::Regex is         *)
(* represented by its pattern text (what Regex::as_str returns).           *)
(***************************************************************************)
EXTENDS Integers, Sequences, FiniteSets, TLC

(***************************************************************************)
(* Bounds of the model                                                     *)
(***************************************************************************)
\* largest number of input rows
MaxRows == 3
\* largest positive index written in a row clause
MaxIdx == 3
\* largest step written in a row clause
MaxStep == 2

(***************************************************************************)
(* Machine integers                                                        *)
(***************************************************************************)
\* usize::MAX, the "unbounded / no match" sentinel (selector.rs, main.rs).
\* Only compared and never used in arithmetic, so the largest value the
\* checker's integers hold stands for it.
UsizeMax == 2147483647
\* i64::MAX, the sentinel of an absent index (selector.rs).
I64Max == 2147483646

(***************************************************************************)
(* Text helpers                                                            *)
(***************************************************************************)
Digits == <<"0", "1", "2", "3", "4", "5", "6", "7", "8", "9">>
UpperLetters == <<"A", "B", "C", "D", "E", "F", "G", "H", "I", "J", "K", "L", "M",
                  "N", "O", "P", "Q", "R", "S", "T", "U", "V", "W", "X", "Y", "Z">>
LowerLetters == <<"a", "b", "c", "d", "e", "f", "g", "h", "i", "j", "k", "l", "m",
                  "n", "o", "p", "q", "r", "s", "t", "u", "v", "w", "x", "y", "z">>

IsDigit(c) == \E i \in 1..10 : Digits[i] = c
DigitVal(c) == (CHOOSE i \in 1..10 : Digits[i] = c) - 1

\* the (?i) flag: letters compare by their lower-case form
ToLower(c) ==
    IF \E i \in 1..26 : UpperLetters[i] = c
    THEN LowerLetters[CHOOSE i \in 1..26 : UpperLetters[i] = c]
    ELSE c

\* number of occurrences of character c in text t: str::matches(c).count()
CountChar(t, c) == Cardinality({i \in 1..Len(t) : t[i] = c})

\* str::split(sep) for a one-character separator: the pieces between the
\* separators, empty pieces included; the empty text gives one empty piece.
RECURSIVE StrSplit(_, _)
StrSplit(t, sep) ==
    IF \A i \in 1..Len(t) : t[i] # sep
    THEN <<t>>
    ELSE LET k == CHOOSE i \in 1..Len(t) :
                      t[i] = sep /\ \A j \in 1..(i - 1) : t[j] # sep
         IN  <<SubSeq(t, 1, k - 1)>> \o StrSplit(SubSeq(t, k + 1, Len(t)), sep)

\* value of a text of decimal digits
RECURSIVE DigitsValue(_)
DigitsValue(t) ==
    IF Len(t) = 0 THEN 0
    ELSE 10 * DigitsValue(SubSeq(t, 1, Len(t) - 1)) + DigitVal(t[Len(t)])

\* str::parse::<i64>(): an optional sign followed by at least one digit.
\* (Texts of the model are short, so the i64 range is never exceeded.)
ParseI64(t) ==
    LET signed == Len(t) >= 1 /\ t[1] \in {"-", "+"}
        body   == IF signed THEN SubSeq(t, 2, Len(t)) ELSE t
    IN  IF Len(body) >= 1 /\ \A i \in 1..Len(body) : IsDigit(body[i])
        THEN [ok |-> TRUE,
              val |-> IF signed /\ t[1] = "-" THEN 0 - DigitsValue(body)
                      ELSE DigitsValue(body)]
        ELSE [ok |-> FALSE, val |-> 0]

(***************************************************************************)
(* Regexes                                                                 *)
(***************************************************************************)
\* r".^" of Selector::new: the pattern no text matches
DefaultRegex == <<".", "^">>

\* format!(r"(?i).*{}.*", component) of parse_selectors
RegexPrefix == <<"(", "?", "i", ")", ".", "*">>
RegexSuffix == <<".", "*">>

\* the pattern built without the (?i) flag
CaseInsensitiveRegex_NoFlag(component) == <<".", "*">> \o component \o RegexSuffix

CaseInsensitiveRegex(component) == RegexPrefix \o component \o RegexSuffix

\* utils::regex_eq
regex_eq(re1, re2) == re1 = re2

\* utils::regex_is_default
regex_is_default(re) == re = DefaultRegex

\* the pattern starts with the flag group (?i)
HasCaseFlag(re) == Len(re) >= 4 /\ SubSeq(re, 1, 4) = <<"(", "?", "i", ")">>

\* the literal the pattern (?i).*literal.* or .*literal.* was built from
RegexLiteral(re) ==
    IF HasCaseFlag(re) THEN SubSeq(re, Len(RegexPrefix) + 1, Len(re) - Len(RegexSuffix))
    ELSE SubSeq(re, 3, Len(re) - Len(RegexSuffix))

\* Regex::is_match.  ".^" matches nothing; .*lit.* matches the texts that
\* contain lit, letters compared case-insensitively under the flag (?i)
\* (lit is made of letters, digits and blanks in this model).
is_match(re, item) ==
    IF regex_is_default(re) THEN FALSE
    ELSE LET lit == RegexLiteral(re)
         IN  \E off \in 0..(Len(item) - Len(lit)) :
                 \A i \in 1..Len(lit) :
                     IF HasCaseFlag(re) THEN ToLower(item[off + i]) = ToLower(lit[i])
                     ELSE item[off + i] = lit[i]

\* Regex::new: of the operator characters only the parentheses are part of
\* the model's texts; a pattern compiles when its groups are closed in order
RECURSIVE GroupsClosed(_, _, _)
GroupsClosed(pattern, i, depth) ==
    IF i > Len(pattern) THEN depth = 0
    ELSE IF pattern[i] = "(" THEN GroupsClosed(pattern, i + 1, depth + 1)
    ELSE IF pattern[i] = ")" THEN depth >= 1 /\ GroupsClosed(pattern, i + 1, depth - 1)
    ELSE GroupsClosed(pattern, i + 1, depth)

RegexCompiles(pattern) == GroupsClosed(pattern, 1, 0)

(***************************************************************************)
(* selector.rs                                                             *)
(***************************************************************************)
\* Selector::new
NewSelector ==
    [start_idx          |-> 0,
     resolved_start_idx |-> 0,
     start_regex        |-> DefaultRegex,
     end_idx            |-> I64Max,
     resolved_end_idx   |-> UsizeMax,
     end_regex          |-> DefaultRegex,
     step               |-> 1,
     stopped            |-> FALSE,
     indices_resolved   |-> FALSE]

\* usize::saturating_sub
saturating_sub(a, b) == IF a >= b THEN a - b ELSE 0

\* ResolveStart without the special case of 0: 0 - 1 wraps to usize::MAX
ResolveStart_ZeroWraps(sel, collection_length) ==
    IF sel.start_idx < 0
    THEN LET abs_idx == 0 - sel.start_idx
         IN  IF abs_idx > collection_length THEN 0
             ELSE saturating_sub(collection_length, abs_idx)
    ELSE IF sel.start_idx = I64Max THEN UsizeMax
    ELSE IF sel.start_idx = 0 THEN UsizeMax
    ELSE sel.start_idx - 1

\* ResolveStart taking a negative start one position too early
ResolveStart_NegativeExclusive(sel, collection_length) ==
    IF sel.start_idx < 0
    THEN LET abs_idx == 0 - sel.start_idx
         IN  IF abs_idx > collection_length THEN 0
             ELSE saturating_sub(saturating_sub(collection_length, abs_idx), 1)
    ELSE IF sel.start_idx = I64Max THEN UsizeMax
    ELSE IF sel.start_idx = 0 THEN 0
    ELSE sel.start_idx - 1

\* resolve_indices, "Resolve start index" (selector.rs 120-133)
ResolveStart(sel, collection_length) ==
    IF sel.start_idx < 0
    THEN LET abs_idx == 0 - sel.start_idx
         IN  IF abs_idx > collection_length THEN 0
             ELSE saturating_sub(collection_length, abs_idx)
    ELSE IF sel.start_idx = I64Max THEN UsizeMax
    ELSE IF sel.start_idx = 0 THEN 0
    ELSE sel.start_idx - 1

\* ResolveEnd with a negative end index always resolved to length - |end|
ResolveEnd_Inclusive(sel, collection_length) ==
    IF sel.end_idx < 0
    THEN LET abs_idx == 0 - sel.end_idx
         IN  IF abs_idx > collection_length
             THEN [idx |-> UsizeMax, start_resets |-> TRUE]
             ELSE [idx |-> saturating_sub(collection_length, abs_idx),
                   start_resets |-> FALSE]
    ELSE IF sel.end_idx = I64Max THEN [idx |-> UsizeMax, start_resets |-> FALSE]
    ELSE IF sel.end_idx = 0 THEN [idx |-> 0, start_resets |-> FALSE]
    ELSE [idx |-> sel.end_idx - 1, start_resets |-> FALSE]

\* ResolveEnd reading an end index 0 as "no end"
ResolveEnd_ZeroIsOpen(sel, collection_length) ==
    IF sel.end_idx < 0
    THEN LET abs_idx == 0 - sel.end_idx
         IN  IF abs_idx > collection_length
             THEN [idx |-> UsizeMax, start_resets |-> TRUE]
             ELSE LET idx == saturating_sub(collection_length, abs_idx)
                  IN  [idx |-> IF sel.start_idx # sel.end_idx
                               THEN saturating_sub(idx, 1) ELSE idx,
                       start_resets |-> FALSE]
    ELSE IF sel.end_idx = I64Max THEN [idx |-> UsizeMax, start_resets |-> FALSE]
    ELSE IF sel.end_idx = 0 THEN [idx |-> UsizeMax, start_resets |-> FALSE]
    ELSE [idx |-> sel.end_idx - 1, start_resets |-> FALSE]

\* resolve_indices, "Resolve end index" (selector.rs 136-155): the value of
\* resolved_end_idx; start_resets tells that the branch also set
\* resolved_start_idx to usize::MAX
ResolveEnd(sel, collection_length) ==
    IF sel.end_idx < 0
    THEN LET abs_idx == 0 - sel.end_idx
         IN  IF abs_idx > collection_length
             THEN [idx |-> UsizeMax, start_resets |-> TRUE]
             ELSE LET idx == saturating_sub(collection_length, abs_idx)
                  IN  [idx |-> IF sel.start_idx # sel.end_idx
                               THEN saturating_sub(idx, 1) ELSE idx,
                       start_resets |-> FALSE]
    ELSE IF sel.end_idx = I64Max THEN [idx |-> UsizeMax, start_resets |-> FALSE]
    ELSE IF sel.end_idx = 0 THEN [idx |-> 0, start_resets |-> FALSE]
    ELSE [idx |-> sel.end_idx - 1, start_resets |-> FALSE]

\* resolve_indices without the test resolved_start_idx > resolved_end_idx
resolve_indices_NoOrderCheck(sel, collection_length) ==
    IF sel.indices_resolved THEN sel
    ELSE
    LET end0   == ResolveEnd(sel, collection_length)
        start1 == IF end0.start_resets THEN UsizeMax
                  ELSE ResolveStart(sel, collection_length)
    IN  [sel EXCEPT !.resolved_start_idx = start1,
                    !.resolved_end_idx   = end0.idx,
                    !.indices_resolved   = TRUE]

\* resolve_indices matching nothing when a positive end index lies beyond the
\* collection
resolve_indices_EndMustExist(sel, collection_length) ==
    IF sel.indices_resolved THEN sel
    ELSE
    LET end0   == ResolveEnd(sel, collection_length)
        start1 == IF end0.start_resets THEN UsizeMax
                  ELSE ResolveStart(sel, collection_length)
        empty  == \/ start1 > end0.idx
                  \/ (sel.end_idx # I64Max /\ sel.end_idx > collection_length)
    IN  [sel EXCEPT !.resolved_start_idx = IF empty THEN UsizeMax ELSE start1,
                    !.resolved_end_idx   = IF empty THEN UsizeMax ELSE end0.idx,
                    !.indices_resolved   = TRUE]

\* Selector::resolve_indices
resolve_indices(sel, collection_length) ==
    IF sel.indices_resolved THEN sel
    ELSE
    LET end0   == ResolveEnd(sel, collection_length)
        start1 == IF end0.start_resets THEN UsizeMax
                  ELSE ResolveStart(sel, collection_length)
        empty  == start1 > end0.idx
    IN  [sel EXCEPT !.resolved_start_idx = IF empty THEN UsizeMax ELSE start1,
                    !.resolved_end_idx   = IF empty THEN UsizeMax ELSE end0.idx,
                    !.indices_resolved   = TRUE]

\* reset_resolution leaving the Selector as it is
reset_resolution_Keeps(sel) == sel

\* Selector::reset_resolution
reset_resolution(sel) == [sel EXCEPT !.indices_resolved = FALSE]

\* SelectorError::InvalidSelector carrying the offending clause text
InvalidSelector(selector, reason) ==
    [ok |-> FALSE, kind |-> "InvalidSelector", selector |-> selector, reason |-> reason]

\* SelectorError::InvalidRegex carrying the pattern that did not compile
InvalidRegex(pattern) == [ok |-> FALSE, kind |-> "InvalidRegex", pattern |-> pattern]

\* "this is the full selection": the clause has no colon (selector.rs 230, 273)
IsFullSelection_Always(selector) == TRUE

IsFullSelection_Never(selector) == FALSE

IsFullSelection(selector) == CountChar(selector, ":") = 0

\* One component of a clause (the body of the inner loop of parse_selectors):
\* acc is [ok |-> TRUE, seq |-> Selector] or an error; idx is 0-based.
ParseComponent(acc, selector, idx, component) ==
    IF ~acc.ok THEN acc
    ELSE IF Len(component) = 0 THEN acc
    ELSE
    LET sequence == acc.seq
        parsed   == ParseI64(component)
        no_colon == IsFullSelection(selector)
    IN  IF parsed.ok
        THEN CASE idx = 0 ->
                    [ok |-> TRUE,
                     seq |-> [sequence EXCEPT
                                !.start_idx = parsed.val,
                                !.end_idx = IF no_colon THEN parsed.val ELSE @]]
               [] idx = 1 ->
                    [ok |-> TRUE, seq |-> [sequence EXCEPT !.end_idx = parsed.val]]
               [] idx = 2 ->
                    IF parsed.val <= 0
                    THEN InvalidSelector(selector, "step not positive")
                    ELSE [ok |-> TRUE, seq |-> [sequence EXCEPT !.step = parsed.val]]
               [] OTHER -> InvalidSelector(selector, "more than three components")
        ELSE LET case_insensitive_regex == CaseInsensitiveRegex(component)
             IN  CASE idx \in {0, 1} /\ ~RegexCompiles(case_insensitive_regex) ->
                        InvalidRegex(case_insensitive_regex)
                   [] idx = 0 ->
                        [ok |-> TRUE,
                         seq |-> [sequence EXCEPT
                                    !.start_regex = case_insensitive_regex,
                                    !.start_idx = I64Max,
                                    !.end_regex = IF no_colon
                                                  THEN case_insensitive_regex ELSE @]]
                   [] idx = 1 ->
                        [ok |-> TRUE,
                         seq |-> [sequence EXCEPT !.end_regex = case_insensitive_regex]]
                   [] idx = 2 -> InvalidSelector(selector, "step not an integer")
                   [] OTHER -> InvalidSelector(selector, "more than three components")

\* the inner loop of parse_selectors over selector.split(":")
RECURSIVE ParseComponents(_, _, _, _)
ParseComponents(acc, selector, components, k) ==
    IF k > Len(components) THEN acc
    ELSE ParseComponents(ParseComponent(acc, selector, k - 1, components[k]),
                         selector, components, k + 1)

\* one comma-separated clause
ParseClause(selector) ==
    ParseComponents([ok |-> TRUE, seq |-> NewSelector], selector,
                    StrSplit(selector, ":"), 1)

\* ParseClauses leaving out a failing clause and all after it
RECURSIVE ParseClauses_ReturnsParsed(_, _, _)
ParseClauses_ReturnsParsed(parts, k, sequences) ==
    IF k > Len(parts) THEN [ok |-> TRUE, selectors |-> sequences]
    ELSE LET r == ParseClause(parts[k])
         IN  IF r.ok THEN ParseClauses_ReturnsParsed(parts, k + 1, Append(sequences, r.seq))
             ELSE [ok |-> TRUE, selectors |-> sequences]

\* ParseClauses passing over the empty parts of the expression
RECURSIVE ParseClauses_SkipsEmpty(_, _, _)
ParseClauses_SkipsEmpty(parts, k, sequences) ==
    IF k > Len(parts) THEN [ok |-> TRUE, selectors |-> sequences]
    ELSE IF parts[k] = <<>> THEN ParseClauses_SkipsEmpty(parts, k + 1, sequences)
    ELSE LET r == ParseClause(parts[k])
         IN  IF r.ok THEN ParseClauses_SkipsEmpty(parts, k + 1, Append(sequences, r.seq))
             ELSE r

\* the outer loop of parse_selectors over selectors.split(","): the first
\* failing clause ends the function with its error
RECURSIVE ParseClauses(_, _, _)
ParseClauses(parts, k, sequences) ==
    IF k > Len(parts) THEN [ok |-> TRUE, selectors |-> sequences]
    ELSE LET r == ParseClause(parts[k])
         IN  IF r.ok THEN ParseClauses(parts, k + 1, Append(sequences, r.seq))
             ELSE r

\* selector::parse_selectors
parse_selectors(selectors) == ParseClauses(StrSplit(selectors, ","), 1, <<>>)

(***************************************************************************)
(* utils.rs                                                                *)
(***************************************************************************)
\* The delimiters are regexes matching one character: a delimiter is
\* modelled by the set of characters it matches.
\* default --row-delimiter, r"\n" (cli.rs)
RowDelimiter == {"\n"}
\* white space
Whitespace == {" ", "\t", "\n"}
\* default --column-delimiter, r"\s" (cli.rs)
ColumnDelimiter == Whitespace

\* Regex::split: the pieces between the delimiter matches, empty ones included
RECURSIVE RegexSplit(_, _)
RegexSplit(text, delimiter) ==
    IF \A i \in 1..Len(text) : text[i] \notin delimiter
    THEN <<text>>
    ELSE LET k == CHOOSE i \in 1..Len(text) :
                      text[i] \in delimiter /\ \A j \in 1..(i - 1) : text[j] \notin delimiter
         IN  <<SubSeq(text, 1, k - 1)>>
                 \o RegexSplit(SubSeq(text, k + 1, Len(text)), delimiter)

IsNonEmpty(s) == Len(s) > 0

\* a line without the carriage return that ended it
StripCR(line) ==
    IF Len(line) > 0 /\ line[Len(line)] = "\r" THEN SubSeq(line, 1, Len(line) - 1) ELSE line

\* str::lines: the text is cut after every line feed; a line loses its line
\* feed and the carriage return before it; what follows the last line feed
\* is a line as it is, unless it is empty
Lines(text) ==
    LET pieces == RegexSplit(text, {"\n"})
        n == Len(pieces)
        ended == [i \in 1..(n - 1) |-> StripCR(pieces[i])]
    IN  IF pieces[n] = <<>> THEN ended ELSE Append(ended, pieces[n])

\* split keeping the empty items
split_KeepsEmpty(text, delimiter) ==
    IF delimiter = {} THEN Lines(text) ELSE RegexSplit(text, delimiter)

\* utils::split.  The empty delimiter (split by lines) is modelled by the
\* empty set of characters.
split(text, delimiter) ==
    IF delimiter = {}
    THEN SelectSeq(Lines(text), IsNonEmpty)
    ELSE SelectSeq(RegexSplit(text, delimiter), IsNonEmpty)

(***************************************************************************)
(* main.rs: the matchers                                                   *)
(***************************************************************************)
\* the SelectionState every scan starts from (main.rs 141-145, 203-207, 376-380)
FreshState ==
    [current_start_idx |-> UsizeMax, current_end_idx |-> UsizeMax, stopped |-> FALSE]

\* the fast path never taken
IsSinglePattern_Never(item_idx, temp_selector) == FALSE

\* IsSinglePattern with the position test inverted
IsSinglePattern_AtStart(item_idx, temp_selector) ==
    /\ item_idx = temp_selector.resolved_start_idx
    /\ temp_selector.resolved_start_idx = temp_selector.resolved_end_idx
    /\ regex_eq(temp_selector.start_regex, temp_selector.end_regex)
    /\ ~regex_is_default(temp_selector.start_regex)

\* the test of the single-pattern fast path (main.rs 36-39)
IsSinglePattern(item_idx, temp_selector) ==
    /\ item_idx # temp_selector.resolved_start_idx
    /\ temp_selector.resolved_start_idx = temp_selector.resolved_end_idx
    /\ regex_eq(temp_selector.start_regex, temp_selector.end_regex)
    /\ ~regex_is_default(temp_selector.start_regex)

\* the test of "Sequence started" (main.rs 44-45)
IsSequenceStart(item_idx, item, temp_selector) ==
    \/ (/\ item_idx = temp_selector.resolved_start_idx
        /\ regex_is_default(temp_selector.start_regex))
    \/ is_match(temp_selector.start_regex, item)

\* the test of "Only one column selected" (main.rs 50-52)
IsSingleSelection(temp_selector) ==
    \/ (/\ regex_eq(temp_selector.end_regex, temp_selector.start_regex)
        /\ ~regex_is_default(temp_selector.start_regex))
    \/ temp_selector.resolved_end_idx = temp_selector.resolved_start_idx

\* IsSequenceEnd without the test that the sequence has started
IsSequenceEnd_NoStartGuard(item_idx, item, temp_selector, state) ==
    \/ (/\ item_idx = temp_selector.resolved_end_idx
        /\ item_idx >= state.current_start_idx
        /\ saturating_sub(item_idx, state.current_start_idx) % temp_selector.step = 0)
    \/ is_match(temp_selector.end_regex, item)

\* the test of "Sequence end" (main.rs 57-61)
IsSequenceEnd(item_idx, item, temp_selector, state) ==
    /\ state.current_start_idx # UsizeMax
    /\ \/ (/\ item_idx = temp_selector.resolved_end_idx
           /\ item_idx >= state.current_start_idx
           /\ saturating_sub(item_idx, state.current_start_idx) % temp_selector.step = 0)
       \/ is_match(temp_selector.end_regex, item)

\* the test of "Sequence middle" (main.rs 66-68)
IsSequenceMiddle(item_idx, temp_selector, state) ==
    /\ item_idx > state.current_start_idx
    /\ item_idx < state.current_end_idx
    /\ saturating_sub(item_idx, state.current_start_idx) % temp_selector.step = 0

\* item_in_sequence_with_state: the membership it returns and the
\* SelectionState it leaves.  The selector is cloned and the clone resolved,
\* so the caller's selector is not changed.
item_in_sequence_with_state(item_idx, item, selector, state, collection_length) ==
    LET temp_selector == resolve_indices(selector, collection_length)
    IN  IF IsSinglePattern(item_idx, temp_selector)
        THEN [in_sequence |-> is_match(temp_selector.start_regex, item), state |-> state]
        ELSE IF IsSequenceStart(item_idx, item, temp_selector)
        THEN [in_sequence |-> TRUE,
              state |-> [state EXCEPT
                  !.current_start_idx = item_idx,
                  !.stopped = IF IsSingleSelection(temp_selector) THEN TRUE ELSE @]]
        ELSE IF IsSequenceEnd(item_idx, item, temp_selector, state)
        THEN [in_sequence |-> TRUE, state |-> [state EXCEPT !.current_end_idx = item_idx]]
        ELSE IF IsSequenceMiddle(item_idx, temp_selector, state)
        THEN [in_sequence |-> TRUE, state |-> state]
        ELSE [in_sequence |-> FALSE, state |-> state]

\* item_in_sequence taking every position between start and end, whatever
\* the step
item_in_sequence_IgnoresStep(item_idx, item, selector0, collection_length) ==
    LET selector == resolve_indices(selector0, collection_length)
    IN  IF /\ item_idx # selector.resolved_start_idx
           /\ selector.resolved_start_idx = selector.resolved_end_idx
           /\ regex_eq(selector.start_regex, selector.end_regex)
           /\ ~regex_is_default(selector.start_regex)
        THEN [in_sequence |-> is_match(selector.start_regex, item), selector |-> selector]
        ELSE IF \/ (/\ item_idx = selector.resolved_start_idx
                    /\ regex_is_default(selector.start_regex))
                \/ is_match(selector.start_regex, item)
        THEN [in_sequence |-> TRUE,
              selector |-> [selector EXCEPT
                  !.resolved_start_idx = item_idx,
                  !.stopped =
                      IF \/ (/\ regex_eq(selector.end_regex, selector.start_regex)
                             /\ ~regex_is_default(selector.start_regex))
                         \/ selector.resolved_end_idx = item_idx
                      THEN TRUE ELSE @]]
        ELSE IF /\ selector.resolved_start_idx # UsizeMax
                /\ \/ (/\ item_idx = selector.resolved_end_idx
                       /\ item_idx >= selector.resolved_start_idx)
                   \/ is_match(selector.end_regex, item)
        THEN [in_sequence |-> TRUE, selector |-> [selector EXCEPT !.resolved_end_idx = item_idx]]
        ELSE IF /\ item_idx > selector.resolved_start_idx
                /\ item_idx < selector.resolved_end_idx
        THEN [in_sequence |-> TRUE, selector |-> selector]
        ELSE [in_sequence |-> FALSE, selector |-> selector]

\* item_in_sequence (legacy): the membership it returns and the selector it
\* leaves; the selector itself is resolved and carries the match state.
item_in_sequence(item_idx, item, selector0, collection_length) ==
    LET selector == resolve_indices(selector0, collection_length)
    IN  IF /\ item_idx # selector.resolved_start_idx
           /\ selector.resolved_start_idx = selector.resolved_end_idx
           /\ regex_eq(selector.start_regex, selector.end_regex)
           /\ ~regex_is_default(selector.start_regex)
        THEN [in_sequence |-> is_match(selector.start_regex, item), selector |-> selector]
        ELSE IF \/ (/\ item_idx = selector.resolved_start_idx
                    /\ regex_is_default(selector.start_regex))
                \/ is_match(selector.start_regex, item)
        THEN \* sequence started; the stop test reads the start index just stored
             [in_sequence |-> TRUE,
              selector |-> [selector EXCEPT
                  !.resolved_start_idx = item_idx,
                  !.stopped =
                      IF \/ (/\ regex_eq(selector.end_regex, selector.start_regex)
                             /\ ~regex_is_default(selector.start_regex))
                         \/ selector.resolved_end_idx = item_idx
                      THEN TRUE ELSE @]]
        ELSE IF /\ selector.resolved_start_idx # UsizeMax
                /\ \/ (/\ item_idx = selector.resolved_end_idx
                       /\ item_idx >= selector.resolved_start_idx
                       /\ saturating_sub(item_idx, selector.resolved_start_idx)
                              % selector.step = 0)
                   \/ is_match(selector.end_regex, item)
        THEN \* sequence end
             [in_sequence |-> TRUE, selector |-> [selector EXCEPT !.resolved_end_idx = item_idx]]
        ELSE IF /\ item_idx > selector.resolved_start_idx
                /\ item_idx < selector.resolved_end_idx
                /\ saturating_sub(item_idx, selector.resolved_start_idx) % selector.step = 0
        THEN \* sequence middle
             [in_sequence |-> TRUE, selector |-> selector]
        ELSE [in_sequence |-> FALSE, selector |-> selector]

(***************************************************************************)
(* main.rs: columns and cells                                              *)
(***************************************************************************)
\* The inner loop of get_columns_with_match_info_immutable over the column
\* selectors for one header item: a SelectionState is built for every call.
\* acc is [cols |-> exported indices, matched |-> one flag per selector].
RECURSIVE ColumnSelectorsLoop(_, _, _, _, _, _)
ColumnSelectorsLoop(acc, col_idx, column, column_selectors, k, n_columns) ==
    IF k > Len(column_selectors) THEN acc
    ELSE LET r == item_in_sequence_with_state(col_idx, column, column_selectors[k],
                                              FreshState, n_columns)
             acc1 == IF r.in_sequence
                     THEN [cols    |-> Append(acc.cols, col_idx),
                           matched |-> [acc.matched EXCEPT ![k] = TRUE]]
                     ELSE acc
         IN  ColumnSelectorsLoop(acc1, col_idx, column, column_selectors, k + 1, n_columns)

\* the outer loop over the header items; c is the 1-based position
RECURSIVE ColumnsLoop(_, _, _, _)
ColumnsLoop(acc, columns, column_selectors, c) ==
    IF c > Len(columns) THEN acc
    ELSE ColumnsLoop(ColumnSelectorsLoop(acc, c - 1, columns[c], column_selectors,
                                         1, Len(columns)),
                     columns, column_selectors, c + 1)

\* str::trim of a clause text
RECURSIVE Trim(_)
Trim(t) ==
    IF Len(t) > 0 /\ t[1] \in Whitespace THEN Trim(Tail(t))
    ELSE IF Len(t) > 0 /\ t[Len(t)] \in Whitespace THEN Trim(SubSeq(t, 1, Len(t) - 1))
    ELSE t

\* the unmatched list with the clause texts as they were written
RECURSIVE UnmatchedFrom_Untrimmed(_, _, _)
UnmatchedFrom_Untrimmed(matched, original_parts, k) ==
    IF k > Len(matched) THEN <<>>
    ELSE (IF ~matched[k] /\ k <= Len(original_parts)
          THEN <<original_parts[k]>> ELSE <<>>)
         \o UnmatchedFrom_Untrimmed(matched, original_parts, k + 1)

\* the unmatched list: the trimmed text of every clause that reported no column
RECURSIVE UnmatchedFrom(_, _, _)
UnmatchedFrom(matched, original_parts, k) ==
    IF k > Len(matched) THEN <<>>
    ELSE (IF ~matched[k] /\ k <= Len(original_parts)
          THEN <<Trim(original_parts[k])>> ELSE <<>>)
         \o UnmatchedFrom(matched, original_parts, k + 1)

\* get_columns_with_match_info_immutable
get_columns_with_match_info_immutable(index_row, column_selectors, column_delimiter, original_selectors_str) ==
    IF Len(column_selectors) = 0
    THEN [cols |-> <<>>, unmatched |-> <<>>]
    ELSE LET columns == split(index_row, column_delimiter)
             acc == ColumnsLoop([cols |-> <<>>,
                                 matched |-> [k \in 1..Len(column_selectors) |-> FALSE]],
                                columns, column_selectors, 1)
         IN  [cols |-> acc.cols,
              unmatched |-> UnmatchedFrom(acc.matched,
                                          StrSplit(original_selectors_str, ","), 1)]

\* get_columns_immutable
get_columns_immutable(index_row, column_selectors, column_delimiter) ==
    IF Len(column_selectors) = 0 THEN <<>>
    ELSE ColumnsLoop([cols |-> <<>>,
                      matched |-> [k \in 1..Len(column_selectors) |-> FALSE]],
                     split(index_row, column_delimiter), column_selectors, 1).cols

\* LegacySelectorsLoop pushing a header position once, however many
\* selectors report it
RECURSIVE LegacySelectorsLoop_OncePerColumn(_, _, _, _, _)
LegacySelectorsLoop_OncePerColumn(acc, col_idx, column, k, n_columns) ==
    IF k > Len(acc.selectors) THEN acc
    ELSE LET r == item_in_sequence(col_idx, column, acc.selectors[k], n_columns)
             seen == Len(acc.cols) > 0 /\ acc.cols[Len(acc.cols)] = col_idx
         IN  LegacySelectorsLoop_OncePerColumn(
                 [cols      |-> IF r.in_sequence /\ ~seen THEN Append(acc.cols, col_idx)
                                ELSE acc.cols,
                  selectors |-> [acc.selectors EXCEPT ![k] = r.selector]],
                 col_idx, column, k + 1, n_columns)

\* The inner loop of get_columns (legacy) over the column selectors for one
\* header item: item_in_sequence changes the selector it is called on.
\* acc is [cols |-> exported indices, selectors |-> the selectors so far].
RECURSIVE LegacySelectorsLoop(_, _, _, _, _)
LegacySelectorsLoop(acc, col_idx, column, k, n_columns) ==
    IF k > Len(acc.selectors) THEN acc
    ELSE LET r == item_in_sequence(col_idx, column, acc.selectors[k], n_columns)
         IN  LegacySelectorsLoop(
                 [cols      |-> IF r.in_sequence THEN Append(acc.cols, col_idx)
                                ELSE acc.cols,
                  selectors |-> [acc.selectors EXCEPT ![k] = r.selector]],
                 col_idx, column, k + 1, n_columns)

\* the outer loop of get_columns over the header items; c is 1-based
RECURSIVE LegacyColumnsLoop(_, _, _)
LegacyColumnsLoop(acc, columns, c) ==
    IF c > Len(columns) THEN acc
    ELSE LegacyColumnsLoop(LegacySelectorsLoop(acc, c - 1, columns[c], 1, Len(columns)),
                           columns, c + 1)

\* get_columns failing when the header row has no item
get_columns_EmptyIsError(index_row, column_selectors, column_delimiter) ==
    IF Len(column_selectors) = 0
    THEN [ok |-> TRUE, cols |-> <<>>, selectors |-> column_selectors]
    ELSE LET columns == split(index_row, column_delimiter)
             acc == LegacyColumnsLoop([cols |-> <<>>, selectors |-> column_selectors],
                                      columns, 1)
         IN  IF Len(columns) = 0
             THEN [ok |-> FALSE, cols |-> <<>>, selectors |-> column_selectors]
             ELSE [ok |-> TRUE, cols |-> acc.cols, selectors |-> acc.selectors]

\* get_columns (legacy): the Result, and the selectors as the call leaves them
get_columns(index_row, column_selectors, column_delimiter) ==
    IF Len(column_selectors) = 0
    THEN [ok |-> TRUE, cols |-> <<>>, selectors |-> column_selectors]
    ELSE LET columns == split(index_row, column_delimiter)
             acc == LegacyColumnsLoop([cols |-> <<>>, selectors |-> column_selectors],
                                      columns, 1)
         IN  [ok |-> TRUE, cols |-> acc.cols, selectors |-> acc.selectors]

\* contains looking at the first index only
Contains_First(seq, x) == Len(seq) > 0 /\ seq[1] = x

\* The inner loop of get_columns_with_match_info (legacy) for one header
\* item.  acc is [cols, matched, selectors].
RECURSIVE LegacyInfoSelectorsLoop(_, _, _, _, _)
LegacyInfoSelectorsLoop(acc, col_idx, column, k, n_columns) ==
    IF k > Len(acc.selectors) THEN acc
    ELSE LET r == item_in_sequence(col_idx, column, acc.selectors[k], n_columns)
         IN  LegacyInfoSelectorsLoop(
                 [cols      |-> IF r.in_sequence THEN Append(acc.cols, col_idx)
                                ELSE acc.cols,
                  matched   |-> IF r.in_sequence THEN [acc.matched EXCEPT ![k] = TRUE]
                                ELSE acc.matched,
                  selectors |-> [acc.selectors EXCEPT ![k] = r.selector]],
                 col_idx, column, k + 1, n_columns)

\* the outer loop of get_columns_with_match_info over the header items
RECURSIVE LegacyInfoColumnsLoop(_, _, _)
LegacyInfoColumnsLoop(acc, columns, c) ==
    IF c > Len(columns) THEN acc
    ELSE LegacyInfoColumnsLoop(
             LegacyInfoSelectorsLoop(acc, c - 1, columns[c], 1, Len(columns)),
             columns, c + 1)

\* get_columns_with_match_info (legacy): the pair it returns, and the
\* selectors as the call leaves them
get_columns_with_match_info(index_row, column_selectors, column_delimiter, original_selectors_str) ==
    IF Len(column_selectors) = 0
    THEN [cols |-> <<>>, unmatched |-> <<>>, selectors |-> column_selectors]
    ELSE LET columns == split(index_row, column_delimiter)
             acc == LegacyInfoColumnsLoop(
                        [cols |-> <<>>,
                         matched |-> [k \in 1..Len(column_selectors) |-> FALSE],
                         selectors |-> column_selectors],
                        columns, 1)
         IN  [cols |-> acc.cols,
              unmatched |-> UnmatchedFrom(acc.matched,
                                          StrSplit(original_selectors_str, ","), 1),
              selectors |-> acc.selectors]

\* slice::contains
Contains(seq, x) == \E i \in 1..Len(seq) : seq[i] = x

\* the loop of get_cells over the cells of the row
RECURSIVE CellsLoop(_, _, _)
CellsLoop(cells, cells_to_select, c) ==
    IF c > Len(cells) THEN <<>>
    ELSE (IF Contains(cells_to_select, c - 1) THEN <<cells[c]>> ELSE <<>>)
         \o CellsLoop(cells, cells_to_select, c + 1)

\* get_cells giving one cell per selected index that the row has, in the
\* order of cells_to_select
RECURSIVE CellsPerIndex(_, _, _)
CellsPerIndex(cells, cells_to_select, k) ==
    IF k > Len(cells_to_select) THEN <<>>
    ELSE (IF cells_to_select[k] < Len(cells) THEN <<cells[cells_to_select[k] + 1]>> ELSE <<>>)
         \o CellsPerIndex(cells, cells_to_select, k + 1)

get_cells_PerIndex(row, cells_to_select, column_delimiter, select_full_row) ==
    IF Len(cells_to_select) = 0
    THEN IF select_full_row THEN <<row>> ELSE <<>>
    ELSE CellsPerIndex(split(row, column_delimiter), cells_to_select, 1)

\* get_cells giving the whole row whenever no cell is selected
get_cells_FullRowWhenEmpty(row, cells_to_select, column_delimiter, select_full_row) ==
    IF Len(cells_to_select) = 0 THEN <<row>>
    ELSE CellsLoop(split(row, column_delimiter), cells_to_select, 1)

\* get_cells
get_cells(row, cells_to_select, column_delimiter, select_full_row) ==
    IF Len(cells_to_select) = 0
    THEN IF select_full_row THEN <<row>> ELSE <<>>
    ELSE CellsLoop(split(row, column_delimiter), cells_to_select, 1)

(***************************************************************************)
(* main.rs: format_columns                                                 *)
(***************************************************************************)
Max(a, b) == IF a >= b THEN a ELSE b

\* widest cell at 1-based position c over the rows k..Len(output)
RECURSIVE ColWidth(_, _, _)
ColWidth(output, c, k) ==
    IF k > Len(output) THEN 0
    ELSE Max(IF c <= Len(output[k]) THEN Len(output[k][c]) ELSE 0,
             ColWidth(output, c, k + 1))

\* format!("{:width$} ", cell): the cell, blanks up to the width, one blank
RECURSIVE Pad(_, _)
Pad(cell, width) == IF Len(cell) >= width THEN cell \o <<" ">> ELSE Pad(cell \o <<" ">>, width)

\* one formatted row: every cell but the last padded to its column's width
RECURSIVE FormatRow(_, _, _)
FormatRow(output, row, c) ==
    IF c > Len(row) THEN <<>>
    ELSE IF c = Len(row) THEN row[c]
    ELSE Pad(row[c], ColWidth(output, c, 1)) \o FormatRow(output, row, c + 1)

\* format_columns
format_columns(output) == [k \in 1..Len(output) |-> FormatRow(output, output[k], 1)]

(***************************************************************************)
(* Inputs of a run                                                         *)
(***************************************************************************)
\* decimal text of a natural number
RECURSIVE IntStr(_)
IntStr(n) == IF n < 10 THEN <<Digits[n + 1]>> ELSE IntStr(n \div 10) \o <<Digits[(n % 10) + 1]>>

Colon == <<":">>
Comma == <<",">>

\* the rows an input is made of
RowTexts == { <<"p">>, <<"x">>, <<"x", " ", "Q">>, <<"p", " ", "x", " ", "q">> }

\* the text read from stdin: every line followed by a line feed (cli.rs read_stdin)
RECURSIVE JoinLines(_)
JoinLines(rows) == IF Len(rows) = 0 THEN <<>> ELSE Head(rows) \o <<"\n">> \o JoinLines(Tail(rows))

Inputs == { JoinLines(rows) : rows \in UNION { [1..n -> RowTexts] : n \in 0..MaxRows } }

PatternComps == { <<"p">>, <<"q">> }
IndexComps == { IntStr(i) : i \in 1..MaxIdx }
StepComps == { IntStr(i) : i \in 1..MaxStep }
BoundComps == { <<>> } \cup IndexComps \cup PatternComps

\* clauses combined into expressions of two clauses
PairClauses == { <<>>, <<"1">>, <<"2">>, <<"1", ":", "2">>, <<"p">> }

Minus == <<"-">>

\* negative indices: in range for every non-empty sequence, in range for the
\* longest ones only, and out of range for all
NegativeComps == { Minus \o IntStr(k) : k \in {1, MaxRows, MaxRows + 1} }

\* row clauses with a negative start or end
NegativeExprs ==
    NegativeComps
    \cup { n \o Colon \o b : n \in NegativeComps, b \in { <<>>, <<"2">> } }
    \cup { a \o Colon \o n : a \in { <<>>, <<"1">>, <<"p">> }, n \in NegativeComps }

\* expressions parse_selectors rejects
BadExprs == { <<"1", ":", "2", ":", "0">>, <<"1", ":", "2", ":", "x">>,
              <<"1", ":", "2", ":", "1", ":", "1">>, <<"(">> }

RowExprs ==
    BoundComps
    \cup { a \o Colon \o b : a \in BoundComps, b \in BoundComps }
    \cup { a \o Colon \o b \o Colon \o s : a \in IndexComps, b \in IndexComps, s \in StepComps }
    \cup { c1 \o Comma \o c2 : c1 \in PairClauses, c2 \in PairClauses }
    \cup NegativeExprs
    \cup BadExprs

ColumnExprs ==
    { <<>>, <<"2">>, <<"1", ":", "2">>, <<"q">>, <<"1", ",", "1">>, <<"1", ":", "2", ":", "0">> }

(***************************************************************************)
(* main.rs: main                                                           *)
(***************************************************************************)
VARIABLES
    args_rows,         \* args.rows
    args_columns,      \* args.columns
    input,             \* the text parse_input returns
    pc,                \* position in main
    row_selectors,     \* parsed row clauses
    column_selectors,  \* parsed column clauses
    split_rows,        \* the rows of the input
    row_states,        \* one SelectionState per row clause
    row_idx,           \* 0-based index of the next row of the loop
    export_cols,       \* exported column indices
    warning,           \* the warning written to stderr, if any
    output,            \* the emitted rows, each a sequence of cells
    emitted,           \* for every emitted row, <<row index, clause index>> (0-based)
    stdout,            \* the printed lines
    exit_code,         \* process exit status, -1 while running
    m_fn,              \* direct calls of a matcher: which one ("state", "legacy")
    m_items,           \* ... the sequence the calls are about
    m_clause,          \* ... the text of the clause
    m_selector,        \* ... the clause passed (the legacy matcher changes it)
    m_state,           \* ... the SelectionState passed
    m_last             \* ... the last call: position, result, state before it

main_vars == <<args_rows, args_columns, input, pc, row_selectors, column_selectors,
               split_rows, row_states, row_idx, export_cols, warning, output, emitted,
               stdout, exit_code>>
match_vars == <<m_fn, m_items, m_clause, m_selector, m_state, m_last>>

VARIABLES
    r_clause,          \* direct calls of resolve_indices: the text of the clause
    r_selector,        \* ... the Selector the calls are made on
    r_calls,           \* ... the calls made so far, in order
    p_expr,            \* a direct call of parse_selectors: the expression
    p_result,          \* ... what the call returned
    p_done,            \* ... whether the call was made
    g_row,             \* direct calls of get_columns: the header row
    g_expr,            \* ... the column expression the selectors were parsed from
    g_selectors,       \* ... the selectors passed (get_columns changes them)
    g_results,         \* ... what the calls returned, in order
    s_text,            \* a direct call of utils::split: the text
    s_delimiter,       \* ... the delimiter
    s_result,          \* ... the items returned
    s_done,            \* ... whether the call was made
    c_row,             \* a direct call of get_cells: the row
    c_cells_to_select, \* ... the indices to select
    c_select_full_row, \* ... the flag passed
    c_result,          \* ... the cells returned
    c_done,            \* ... whether the call was made
    i_row,             \* a direct call of get_columns_with_match_info: the header row
    i_expr,            \* ... the column expression (original_selectors_str)
    i_selectors,       \* ... the selectors passed
    i_result,          \* ... the pair returned
    i_done             \* ... whether the call was made

resolve_vars == <<r_clause, r_selector, r_calls>>
parse_vars == <<p_expr, p_result, p_done>>
columns_vars == <<g_row, g_expr, g_selectors, g_results>>
split_vars == <<s_text, s_delimiter, s_result, s_done>>
cells_vars == <<c_row, c_cells_to_select, c_select_full_row, c_result, c_done>>
info_vars == <<i_row, i_expr, i_selectors, i_result, i_done>>
other_vars == <<resolve_vars, parse_vars, columns_vars, split_vars, cells_vars, info_vars>>
vars == <<main_vars, match_vars, other_vars>>

\* parse_selectors was not called
NoResult == [ok |-> FALSE, kind |-> "none", selector |-> <<>>, reason |-> ""]

ResolveIdle ==
    /\ r_clause = <<>>
    /\ r_selector = NewSelector
    /\ r_calls = <<>>

ParseIdle ==
    /\ p_expr = <<>>
    /\ p_result = NoResult
    /\ p_done = FALSE

ColumnsIdle ==
    /\ g_row = <<>>
    /\ g_expr = <<>>
    /\ g_selectors = <<>>
    /\ g_results = <<>>

SplitIdle ==
    /\ s_text = <<>>
    /\ s_delimiter = {}
    /\ s_result = <<>>
    /\ s_done = FALSE

CellsIdle ==
    /\ c_row = <<>>
    /\ c_cells_to_select = <<>>
    /\ c_select_full_row = FALSE
    /\ c_result = <<>>
    /\ c_done = FALSE

InfoIdle ==
    /\ i_row = <<>>
    /\ i_expr = <<>>
    /\ i_selectors = <<>>
    /\ i_result = [cols |-> <<>>, unmatched |-> <<>>]
    /\ i_done = FALSE

\* no direct matcher call is under way
NoCall == [idx |-> -1, in_sequence |-> FALSE, state_before |-> FreshState,
           selector_before |-> NewSelector]

MatchIdle ==
    /\ m_fn = "none"
    /\ m_items = <<>>
    /\ m_clause = <<>>
    /\ m_selector = NewSelector
    /\ m_state = FreshState
    /\ m_last = NoCall

\* args.columns.is_empty()
select_full_row == Len(args_columns) = 0

Init ==
    /\ args_rows \in RowExprs
    /\ args_columns \in ColumnExprs
    /\ input \in Inputs
    /\ pc = "parse_rows"
    /\ row_selectors = <<>>
    /\ column_selectors = <<>>
    /\ split_rows = <<>>
    /\ row_states = <<>>
    /\ row_idx = 0
    /\ export_cols = <<>>
    /\ warning = "none"
    /\ output = <<>>
    /\ emitted = <<>>
    /\ stdout = <<>>
    /\ exit_code = -1
    /\ MatchIdle
    /\ ResolveIdle /\ ParseIdle /\ ColumnsIdle /\ SplitIdle /\ CellsIdle /\ InfoIdle

\* main.rs 347-353
ParseRowSelectors ==
    /\ pc = "parse_rows"
    /\ LET r == parse_selectors(args_rows)
       IN  IF r.ok
           THEN /\ row_selectors' = r.selectors
                /\ pc' = "parse_columns"
                /\ exit_code' = exit_code
           ELSE /\ row_selectors' = row_selectors
                /\ pc' = "exit"
                /\ exit_code' = 1
    /\ UNCHANGED <<args_rows, args_columns, input, column_selectors, split_rows,
                   row_states, row_idx, export_cols, warning, output, emitted, stdout,
                   match_vars, other_vars>>

\* ParseColumnSelectors going on without column clauses after a parse error
ParseColumnSelectors_IgnoreError ==
    /\ pc = "parse_columns"
    /\ LET r == parse_selectors(args_columns)
       IN  column_selectors' = IF r.ok THEN r.selectors ELSE <<>>
    /\ pc' = "split"
    /\ UNCHANGED <<args_rows, args_columns, input, row_selectors, split_rows,
                   row_states, row_idx, export_cols, warning, output, emitted, stdout,
                   exit_code, match_vars, other_vars>>

\* main.rs 354-360
ParseColumnSelectors ==
    /\ pc = "parse_columns"
    /\ LET r == parse_selectors(args_columns)
       IN  IF r.ok
           THEN /\ column_selectors' = r.selectors
                /\ pc' = "split"
                /\ exit_code' = exit_code
           ELSE /\ column_selectors' = column_selectors
                /\ pc' = "exit"
                /\ exit_code' = 1
    /\ UNCHANGED <<args_rows, args_columns, input, row_selectors, split_rows,
                   row_states, row_idx, export_cols, warning, output, emitted, stdout,
                   match_vars, other_vars>>

\* main.rs 363-380: the rows of the input and a fresh state per row clause
SplitRows ==
    /\ pc = "split"
    /\ split_rows' = split(input, RowDelimiter)
    /\ row_states' = [k \in 1..Len(row_selectors) |-> FreshState]
    /\ pc' = "loop"
    /\ UNCHANGED <<args_rows, args_columns, input, row_selectors, column_selectors,
                   row_idx, export_cols, warning, output, emitted, stdout, exit_code,
                   match_vars, other_vars>>

\* RowSelectorsLoop leaving the loop at the first clause that matches the row
RECURSIVE RowSelectorsLoop_FirstMatchOnly(_, _, _, _, _, _, _)
RowSelectorsLoop_FirstMatchOnly(acc, r_idx, row, selectors, k, n_rows, cols) ==
    IF k > Len(selectors) THEN acc
    ELSE LET r == item_in_sequence_with_state(r_idx, row, selectors[k], acc.states[k], n_rows)
         IN  IF r.in_sequence
             THEN [states  |-> [acc.states EXCEPT ![k] = r.state],
                   output  |-> Append(acc.output,
                                      get_cells(row, cols, ColumnDelimiter,
                                                select_full_row)),
                   emitted |-> Append(acc.emitted, <<r_idx, k - 1>>)]
             ELSE RowSelectorsLoop_FirstMatchOnly([acc EXCEPT !.states[k] = r.state],
                                                  r_idx, row, selectors, k + 1, n_rows, cols)

\* main.rs 407-420: the row clauses tested on one row, in clause order.
\* acc is [states, output, emitted]; k is the 1-based clause position.
RECURSIVE RowSelectorsLoop(_, _, _, _, _, _, _)
RowSelectorsLoop(acc, r_idx, row, selectors, k, n_rows, cols) ==
    IF k > Len(selectors) THEN acc
    ELSE LET r == item_in_sequence_with_state(r_idx, row, selectors[k], acc.states[k], n_rows)
             acc1 == IF r.in_sequence
                     THEN [states  |-> [acc.states EXCEPT ![k] = r.state],
                           output  |-> Append(acc.output,
                                              get_cells(row, cols, ColumnDelimiter,
                                                        select_full_row)),
                           emitted |-> Append(acc.emitted, <<r_idx, k - 1>>)]
                     ELSE [acc EXCEPT !.states[k] = r.state]
         IN  RowSelectorsLoop(acc1, r_idx, row, selectors, k + 1, n_rows, cols)

\* LoopBody scanning every row for its columns, not the first one only
LoopBody_ColumnsEveryRow ==
    /\ pc = "loop"
    /\ row_idx < Len(split_rows)
    /\ LET row == split_rows[row_idx + 1]
           info == get_columns_with_match_info_immutable(row, column_selectors,
                                                         ColumnDelimiter, args_columns)
           cols == info.cols
           acc == RowSelectorsLoop([states |-> row_states, output |-> output,
                                    emitted |-> emitted],
                                   row_idx, row, row_selectors, 1, Len(split_rows), cols)
       IN  /\ export_cols' = cols
           /\ warning' = IF row_idx = 0 /\ ~select_full_row
                         THEN IF Len(info.cols) = 0 THEN "no_valid_columns"
                              ELSE IF Len(info.unmatched) # 0 THEN "unmatched"
                              ELSE warning
                         ELSE warning
           /\ row_states' = acc.states
           /\ output' = acc.output
           /\ emitted' = acc.emitted
    /\ row_idx' = row_idx + 1
    /\ UNCHANGED <<args_rows, args_columns, input, pc, row_selectors, column_selectors,
                   split_rows, stdout, exit_code, match_vars, other_vars>>

\* main.rs 382-421: one iteration of the loop over the rows
LoopBody ==
    /\ pc = "loop"
    /\ row_idx < Len(split_rows)
    /\ LET row == split_rows[row_idx + 1]
           info == get_columns_with_match_info_immutable(row, column_selectors,
                                                         ColumnDelimiter, args_columns)
           cols == IF row_idx = 0 THEN info.cols ELSE export_cols
           acc == RowSelectorsLoop([states |-> row_states, output |-> output,
                                    emitted |-> emitted],
                                   row_idx, row, row_selectors, 1, Len(split_rows), cols)
       IN  /\ export_cols' = cols
           /\ warning' = IF row_idx = 0 /\ ~select_full_row
                         THEN IF Len(info.cols) = 0 THEN "no_valid_columns"
                              ELSE IF Len(info.unmatched) # 0 THEN "unmatched"
                              ELSE warning
                         ELSE warning
           /\ row_states' = acc.states
           /\ output' = acc.output
           /\ emitted' = acc.emitted
    /\ row_idx' = row_idx + 1
    /\ UNCHANGED <<args_rows, args_columns, input, pc, row_selectors, column_selectors,
                   split_rows, stdout, exit_code, match_vars, other_vars>>

\* main.rs 423-428
PrintOutput ==
    /\ pc = "loop"
    /\ row_idx = Len(split_rows)
    /\ stdout' = format_columns(output)
    /\ pc' = "done"
    /\ exit_code' = 0
    /\ UNCHANGED <<args_rows, args_columns, input, row_selectors, column_selectors,
                   split_rows, row_states, row_idx, export_cols, warning, output, emitted,
                   match_vars, other_vars>>

Next ==
    \/ ParseRowSelectors
    \/ ParseColumnSelectors
    \/ SplitRows
    \/ LoopBody
    \/ PrintOutput

Spec == Init /\ [][Next]_vars

(***************************************************************************)
(* The matchers called directly, as the unit tests call them: any          *)
(* position of the sequence, in any order, from any SelectionState.        *)
(***************************************************************************)
\* the items a scanned sequence is made of
ItemTexts == { <<"p">>, <<"x">>, <<"x", " ", "Q">> }
ItemSeqs == UNION { [1..n -> ItemTexts] : n \in 1..MaxRows }

\* single clauses: a bound alone, or start:end
MatchClauses == BoundComps \cup { a \o Colon \o b : a \in BoundComps, b \in BoundComps }

\* the values a SelectionState field takes over a sequence of n items
StateIdxs(n) == (0..(n - 1)) \cup {UsizeMax}
SelectionStates(n) ==
    [current_start_idx : StateIdxs(n), current_end_idx : StateIdxs(n), stopped : BOOLEAN]

MainIdle ==
    /\ args_rows = <<>>
    /\ args_columns = <<>>
    /\ input = <<>>
    /\ pc = "idle"
    /\ row_selectors = <<>>
    /\ column_selectors = <<>>
    /\ split_rows = <<>>
    /\ row_states = <<>>
    /\ row_idx = 0
    /\ export_cols = <<>>
    /\ warning = "none"
    /\ output = <<>>
    /\ emitted = <<>>
    /\ stdout = <<>>
    /\ exit_code = -1

InitMatch ==
    /\ MainIdle
    /\ ResolveIdle /\ ParseIdle /\ ColumnsIdle /\ SplitIdle /\ CellsIdle /\ InfoIdle
    /\ m_items \in ItemSeqs
    /\ m_clause \in MatchClauses
    /\ m_selector = parse_selectors(m_clause).selectors[1]
    /\ \/ m_fn = "state" /\ m_state \in SelectionStates(Len(m_items))
       \/ m_fn = "legacy" /\ m_state = FreshState
    /\ m_last = NoCall

\* one call of item_in_sequence_with_state (main.rs 22-74)
CallWithState ==
    /\ m_fn = "state"
    /\ \E i \in 0..(Len(m_items) - 1) :
          LET r == item_in_sequence_with_state(i, m_items[i + 1], m_selector, m_state,
                                               Len(m_items))
          IN  /\ m_state' = r.state
              /\ m_last' = [idx |-> i, in_sequence |-> r.in_sequence,
                            state_before |-> m_state, selector_before |-> m_selector]
    /\ UNCHANGED <<main_vars, other_vars, m_fn, m_items, m_clause, m_selector>>

\* one call of item_in_sequence (main.rs 78-121)
CallLegacy ==
    /\ m_fn = "legacy"
    /\ \E i \in 0..(Len(m_items) - 1) :
          LET r == item_in_sequence(i, m_items[i + 1], m_selector, Len(m_items))
          IN  /\ m_selector' = r.selector
              /\ m_last' = [idx |-> i, in_sequence |-> r.in_sequence,
                            state_before |-> m_state, selector_before |-> m_selector]
    /\ UNCHANGED <<main_vars, other_vars, m_fn, m_items, m_clause, m_state>>

NextMatch == CallWithState \/ CallLegacy

SpecMatch == InitMatch /\ [][NextMatch]_vars

(***************************************************************************)
(* resolve_indices and reset_resolution called directly on one Selector,   *)
(* as the unit tests call them.                                            *)
(***************************************************************************)
\* largest number of calls made on the Selector
MaxCalls == 3

\* bounds of the clauses resolved
ResolveComps == BoundComps \cup NegativeComps \cup { <<"0">> }

ResolveClauses ==
    ResolveComps \cup { a \o Colon \o b : a \in ResolveComps, b \in ResolveComps }

InitResolve ==
    /\ MainIdle /\ MatchIdle /\ ParseIdle /\ ColumnsIdle /\ SplitIdle /\ CellsIdle /\ InfoIdle
    /\ r_clause \in ResolveClauses
    /\ r_selector = parse_selectors(r_clause).selectors[1]
    /\ r_calls = <<>>

\* selector.resolve_indices(collection_length) (selector.rs 114-163)
CallResolve ==
    /\ Len(r_calls) < MaxCalls
    /\ r_clause # <<>>
    /\ \E len \in 0..MaxRows :
          /\ r_selector' = resolve_indices(r_selector, len)
          /\ r_calls' = Append(r_calls, [op |-> "resolve", len |-> len])
    /\ UNCHANGED <<main_vars, match_vars, parse_vars, columns_vars, split_vars, cells_vars, info_vars, r_clause>>

\* selector.reset_resolution() (selector.rs 166-168)
CallReset ==
    /\ Len(r_calls) < MaxCalls
    /\ r_clause # <<>>
    /\ r_selector' = reset_resolution(r_selector)
    /\ r_calls' = Append(r_calls, [op |-> "reset", len |-> 0])
    /\ UNCHANGED <<main_vars, match_vars, parse_vars, columns_vars, split_vars, cells_vars, info_vars, r_clause>>

NextResolve == CallResolve \/ CallReset

SpecResolve == InitResolve /\ [][NextResolve]_vars

(***************************************************************************)
(* parse_selectors called directly on one expression.                      *)
(***************************************************************************)
\* largest number of colon-separated components of a clause
MaxComponents == 4

\* components: empty, integers of each sign, a pattern, a pattern that does
\* not compile
ParseComps == { <<>>, <<"0">>, <<"2">>, <<"-", "1">>, <<"p">>, <<"(">> }

RECURSIVE ClausesOf(_)
ClausesOf(n) ==
    IF n = 1 THEN ParseComps
    ELSE { c \o Colon \o x : c \in ClausesOf(n - 1), x \in ParseComps }

\* clauses combined into expressions of two clauses
ParsePairClauses ==
    { <<>>, <<"2">>, <<"p", ":", "2">>, <<"1", ":", "2", ":", "0">>, <<"1", ":", "2", ":", "p">>,
      <<"1", ":", "2", ":", "2", ":">>, <<"(">> }

\* patterns in both cases and with a blank
PatternExprs == { <<"P">>, <<"q">>, <<"x", " ", "q">>, <<"p", "(">> }

ParseExprs ==
    UNION { ClausesOf(n) : n \in 1..MaxComponents }
    \cup { c1 \o Comma \o c2 : c1 \in ParsePairClauses, c2 \in ParsePairClauses }
    \cup { c1 \o Comma \o c2 \o Comma \o c3 :
             c1 \in { <<>>, <<"2">> }, c2 \in { <<>>, <<"p">> }, c3 \in { <<>>, <<"1", ":", "2">> } }
    \cup PatternExprs

InitParse ==
    /\ MainIdle /\ MatchIdle /\ ResolveIdle /\ ColumnsIdle /\ SplitIdle /\ CellsIdle /\ InfoIdle
    /\ p_expr \in ParseExprs
    /\ p_result = NoResult
    /\ p_done = FALSE

\* selector::parse_selectors(p_expr)
CallParse ==
    /\ ~p_done
    /\ p_result' = parse_selectors(p_expr)
    /\ p_done' = TRUE
    /\ UNCHANGED <<main_vars, match_vars, resolve_vars, columns_vars, split_vars, cells_vars, info_vars, p_expr>>

NextParse == CallParse

SpecParse == InitParse /\ [][NextParse]_vars

(***************************************************************************)
(* get_columns (legacy) called directly, the selectors being reused from   *)
(* one call to the next.                                                   *)
(***************************************************************************)
\* largest number of calls on the same selectors
MaxScans == 2

\* header rows: without an item, with one, two and three items
HeaderTexts ==
    { <<>>, <<" ">>, <<" ", "\t">>, <<"p">>, <<"x", " ", "q">>, <<" ", "q", " ", "p">>,
      <<"p", " ", "x", " ", "q">> }

\* the column expressions of the calls
HeaderExprs ==
    BoundComps
    \cup { a \o Colon \o b : a \in BoundComps, b \in BoundComps }
    \cup { a \o Colon \o b \o Colon \o st : a \in IndexComps, b \in IndexComps, st \in StepComps }
    \cup { c1 \o Comma \o c2 : c1 \in PairClauses, c2 \in PairClauses }
    \cup { a \o Colon \o n : a \in { <<>>, <<"1">>, <<"p">> }, n \in NegativeComps }
    \cup { <<"0">> } \cup { <<"0">> \o Colon \o b : b \in BoundComps }

InitColumns ==
    /\ MainIdle /\ MatchIdle /\ ResolveIdle /\ ParseIdle /\ SplitIdle /\ CellsIdle /\ InfoIdle
    /\ g_row \in HeaderTexts
    /\ g_expr \in HeaderExprs
    /\ g_selectors = parse_selectors(g_expr).selectors
    /\ g_results = <<>>

\* get_columns(g_row, &mut g_selectors, column_delimiter) (main.rs 158-182)
CallGetColumns ==
    /\ Len(g_results) < MaxScans
    /\ g_selectors # <<>>
    /\ LET r == get_columns(g_row, g_selectors, ColumnDelimiter)
       IN  /\ g_results' = Append(g_results, [ok |-> r.ok, cols |-> r.cols])
           /\ g_selectors' = r.selectors
    /\ UNCHANGED <<main_vars, match_vars, resolve_vars, parse_vars, split_vars, cells_vars,
                   info_vars, g_row, g_expr>>

NextColumns == CallGetColumns

SpecColumns == InitColumns /\ [][NextColumns]_vars

(***************************************************************************)
(* utils::split called directly on one text.                               *)
(***************************************************************************)
\* largest number of characters of the text
MaxText == 4

SplitChars == { "a", ",", " ", "\n", "\r" }

SplitTexts == UNION { [1..n -> SplitChars] : n \in 0..MaxText }

\* the delimiters: empty (by lines), a comma, r"\s", r"\n"
SplitDelimiters == { {}, {","}, Whitespace, RowDelimiter }

InitSplit ==
    /\ MainIdle /\ MatchIdle /\ ResolveIdle /\ ParseIdle /\ ColumnsIdle /\ CellsIdle /\ InfoIdle
    /\ s_text \in SplitTexts
    /\ s_delimiter \in SplitDelimiters
    /\ s_result = <<>>
    /\ s_done = FALSE

\* utils::split(s_text, s_delimiter)
CallSplit ==
    /\ ~s_done
    /\ s_result' = split(s_text, s_delimiter)
    /\ s_done' = TRUE
    /\ UNCHANGED <<main_vars, match_vars, resolve_vars, parse_vars, columns_vars,
                   cells_vars, info_vars, s_text, s_delimiter>>

NextSplit == CallSplit

SpecSplit == InitSplit /\ [][NextSplit]_vars

(***************************************************************************)
(* get_columns_with_match_info (legacy) called directly on one header row. *)
(***************************************************************************)
\* clause texts of the expressions, some written with blanks around them
InfoClauses == { <<>>, <<"1">>, <<"3">>, <<"1", ":", "2">>, <<"p">>, <<" ", "q">>, <<"q", " ">> }

InfoExprs ==
    InfoClauses
    \cup { c1 \o Comma \o c2 : c1 \in InfoClauses, c2 \in InfoClauses }
    \cup { c1 \o Comma \o c2 \o Comma \o c3 :
             c1 \in { <<"p">>, <<"3">> }, c2 \in { <<"q">>, <<" ", "x">> }, c3 \in { <<"2">>, <<"q", " ">> } }

\* the selectors are parsed from the expression; the tests also pass an
\* empty list with the empty expression
InitInfo ==
    /\ MainIdle /\ MatchIdle /\ ResolveIdle /\ ParseIdle /\ ColumnsIdle /\ SplitIdle /\ CellsIdle
    /\ i_row \in HeaderTexts
    /\ i_expr \in InfoExprs
    /\ i_selectors \in { parse_selectors(i_expr).selectors }
                          \cup (IF i_expr = <<>> THEN { <<>> } ELSE {})
    /\ i_result = [cols |-> <<>>, unmatched |-> <<>>]
    /\ i_done = FALSE

\* get_columns_with_match_info(i_row, &mut i_selectors, column_delimiter, i_expr)
CallGetColumnsWithMatchInfo ==
    /\ ~i_done
    /\ LET r == get_columns_with_match_info(i_row, i_selectors, ColumnDelimiter, i_expr)
       IN  /\ i_result' = [cols |-> r.cols, unmatched |-> r.unmatched]
           /\ i_selectors' = r.selectors
    /\ i_done' = TRUE
    /\ UNCHANGED <<main_vars, match_vars, resolve_vars, parse_vars, columns_vars, split_vars,
                   cells_vars, i_row, i_expr>>

NextInfo == CallGetColumnsWithMatchInfo

SpecInfo == InitInfo /\ [][NextInfo]_vars

(***************************************************************************)
(* get_cells called directly on one row, as the unit tests call it.        *)
(***************************************************************************)
\* largest number of indices passed in cells_to_select
MaxSelect == 3
\* largest index passed in cells_to_select
MaxCellIdx == 4

\* rows of no, one, two and three cells
CellRows ==
    { <<>>, <<"a">>, <<" ", "b">>, <<"a", " ", " ", "b">>, <<"a", " ", "b", " ", "c">> }

CellSelections == UNION { [1..n -> 0..MaxCellIdx] : n \in 0..MaxSelect }

InitCells ==
    /\ MainIdle /\ MatchIdle /\ ResolveIdle /\ ParseIdle /\ ColumnsIdle /\ SplitIdle /\ InfoIdle
    /\ c_row \in CellRows
    /\ c_cells_to_select \in CellSelections
    /\ c_select_full_row \in BOOLEAN
    /\ c_result = <<>>
    /\ c_done = FALSE

\* get_cells(c_row, c_cells_to_select, column_delimiter, c_select_full_row)
CallGetCells ==
    /\ ~c_done
    /\ c_result' = get_cells(c_row, c_cells_to_select, ColumnDelimiter, c_select_full_row)
    /\ c_done' = TRUE
    /\ UNCHANGED <<main_vars, match_vars, resolve_vars, parse_vars, columns_vars, split_vars,
                   info_vars, c_row, c_cells_to_select, c_select_full_row>>

NextCells == CallGetCells

SpecCells == InitCells /\ [][NextCells]_vars

(***************************************************************************)
(* Properties                                                              *)
(***************************************************************************)
\* the row phase has tested the rows 0 .. row_idx-1
Scanning == pc \in {"loop", "done"}

\* the rows emitted for the clause at 0-based position j
RowMembers(j) == { emitted[n][1] : n \in { m \in 1..Len(emitted) : emitted[m][2] = j } }

\* the header items of the run
HeaderItems == split(split_rows[1], ColumnDelimiter)

\* a:b and a:b:s as written by the user
Range2(a, b) == IntStr(a) \o Colon \o IntStr(b)
Range3(a, b, s) == IntStr(a) \o Colon \o IntStr(b) \o Colon \o IntStr(s)

\* the text holds the letter, in either case
TextHasLetter(t, letter) == \E i \in 1..Len(t) : ToLower(t[i]) = letter

\* the positions of the rows that hold the letter
RowsWithLetter(letter) == { i \in 0..(Len(split_rows) - 1) : TextHasLetter(split_rows[i + 1], letter) }

SetMin(S) == CHOOSE x \in S : \A y \in S : x <= y

\* the members one clause reports when it alone scans the items from a fresh
\* state, position i onward
RECURSIVE ScanFrom(_, _, _, _)
ScanFrom(sel, items, i, state) ==
    IF i >= Len(items) THEN {}
    ELSE LET r == item_in_sequence_with_state(i, items[i + 1], sel, state, Len(items))
         IN  (IF r.in_sequence THEN {i} ELSE {}) \cup ScanFrom(sel, items, i + 1, r.state)

ScanMembers(sel, items) == ScanFrom(sel, items, 0, FreshState)

\* C1: a row clause that is a bare index k, 1 <= k <= N, emits the row at
\* position k-1 and no other row.
C1_BareIndexEmitsOnlyThatRow ==
    \A k \in 1..MaxIdx :
        (pc = "done" /\ args_rows = IntStr(k) /\ k <= Len(split_rows))
            => emitted = << <<k - 1, 0>> >>

\* C2: a row clause a:b:s with 1 <= a <= b, s >= 1 emits exactly the rows at
\* the positions a-1, a-1+s, ... that lie in [a-1, b-1]; no row after b-1.
C2_SteppedRangeMembers ==
    \A a \in 1..MaxIdx, b \in 1..MaxIdx, st \in 1..MaxStep :
        (pc = "done" /\ args_rows = Range3(a, b, st) /\ a <= b)
            => RowMembers(0) = { i \in 0..(Len(split_rows) - 1) :
                                   /\ i >= a - 1
                                   /\ i <= b - 1
                                   /\ (i - (a - 1)) % st = 0 }

\* C3: a row clause a:b with 1 <= a <= b <= N emits exactly the rows at the
\* positions a-1 .. b-1.
C3_RangeMembers ==
    \A a \in 1..MaxIdx, b \in 1..MaxIdx :
        (pc = "done" /\ args_rows = Range2(a, b) /\ a <= b /\ b <= Len(split_rows))
            => RowMembers(0) = (a - 1)..(b - 1)

\* C4: a column clause a:b with 1 <= a <= b <= N (N header items) exports
\* exactly the column indices a-1, ..., b-1.
C4_ColumnRangeExported ==
    \A a \in 1..MaxIdx, b \in 1..MaxIdx :
        (/\ Scanning /\ row_idx >= 1
         /\ args_columns = Range2(a, b) /\ a <= b /\ b <= Len(HeaderItems))
            => export_cols = [k \in 1..(b - a + 1) |-> a - 2 + k]

\* C5: with the empty column expression every emitted row is one cell that
\* holds the whole row text.
C5_NoColumnsEmitsWholeRow ==
    (Scanning /\ args_columns = <<>>)
        => \A n \in 1..Len(output) : output[n] = << split_rows[emitted[n][1] + 1] >>

\* C6: with the empty row expression the row phase emits every row exactly
\* once and in input order, whatever the number of rows.
C6_EmptyRowExprEmitsAllRows ==
    (Scanning /\ args_rows = <<>>)
        => /\ emitted = [k \in 1..row_idx |-> <<k - 1, 0>>]
           /\ Len(output) = row_idx
           /\ (pc = "done" => row_idx = Len(split_rows))

C6_Witness ==
    /\ pc = "done" /\ args_rows = <<>>
    /\ Len(split_rows) >= 2 /\ Len(emitted) = Len(split_rows)

\* <<row, clause>> pairs in the order of the row loop and of the clause loop
EmittedBefore(e1, e2) == e1[1] < e2[1] \/ (e1[1] = e2[1] /\ e1[2] < e2[2])

\* C7: every row clause is evaluated independently of the others; a row is
\* emitted once for every clause that reports it, in row order and, for one
\* row, in clause order.
C7_OneEmissionPerMatchingClause ==
    Scanning =>
        /\ Len(output) = Len(emitted)
        /\ \A n \in 1..(Len(emitted) - 1) : EmittedBefore(emitted[n], emitted[n + 1])
        /\ \A j \in 1..Len(row_selectors) :
               RowMembers(j - 1)
                   = { i \in ScanMembers(row_selectors[j], split_rows) : i < row_idx }

C7_Witness ==
    /\ pc = "done" /\ Len(row_selectors) = 2
    /\ \E n \in 1..(Len(emitted) - 1) :
          /\ emitted[n][1] = emitted[n + 1][1]
          /\ emitted[n][2] = 0 /\ emitted[n + 1][2] = 1
    /\ RowMembers(0) # RowMembers(1)

\* C8: a row clause p:q of two different patterns emits exactly the rows from
\* the first row matching p through the first later row matching q; no row
\* after that one, also when it matches p or q again.
C8_PatternRangeStopsAtEnd ==
    \A p \in PatternComps, q \in PatternComps :
        (/\ pc = "done" /\ p # q /\ args_rows = p \o Colon \o q
         /\ RowsWithLetter(p[1]) # {}
         /\ \E i \in RowsWithLetter(q[1]) : i > SetMin(RowsWithLetter(p[1])))
            => LET first == SetMin(RowsWithLetter(p[1]))
                   last  == SetMin({ i \in RowsWithLetter(q[1]) : i > first })
               IN  RowMembers(0) = first..last

\* C9: for a bare pattern clause, an item is a member exactly when its text
\* matches the pattern, at any position, after any calls and from any match
\* state, in item_in_sequence_with_state and in item_in_sequence.
C9_BarePatternIsTextMatch ==
    \A c \in PatternComps :
        (m_clause = c /\ m_last.idx >= 0)
            => (m_last.in_sequence <=> TextHasLetter(m_items[m_last.idx + 1], c[1]))

C9_Witness ==
    /\ m_fn = "state" /\ m_clause = <<"p">>
    /\ m_last.idx = 1 /\ m_last.in_sequence
    /\ m_last.state_before.stopped
    /\ m_last.state_before.current_start_idx = 0
    /\ TextHasLetter(m_items[1], "p")

\* the row expressions whose start bound is the pattern p
StartsWithPattern(p) == { p } \cup { p \o Colon \o b : b \in BoundComps }

\* C10: a clause whose start pattern matches no row emits nothing, whatever
\* its end bound, and the run (its column expression being well formed) ends
\* successfully.
C10_StartNeverMatchesEmitsNothing ==
    \A p \in PatternComps :
        (/\ args_rows \in StartsWithPattern(p) /\ RowsWithLetter(p[1]) = {}
         /\ parse_selectors(args_columns).ok)
            => /\ emitted = <<>>
               /\ output = <<>>
               /\ exit_code # 1
               /\ (pc = "done" => exit_code = 0 /\ stdout = <<>>)

C10_Witness ==
    /\ pc = "done" /\ args_rows = <<"p", ":", "q">>
    /\ RowsWithLetter("p") = {}
    /\ Cardinality(RowsWithLetter("q")) >= 2
    /\ emitted = <<>>

\* the Selector was resolved once, for a sequence of length n
ResolvedOnceFor(n) == r_calls = <<[op |-> "resolve", len |-> n]>>

\* a range clause (start and end differ) whose end is the negative index -k
RangeToNegativeEnd(k) ==
    /\ r_selector.end_idx = 0 - k
    /\ r_selector.start_idx # r_selector.end_idx

\* C11 as claimed: the end -k of a range clause a:-k resolves to position
\* N-k of a sequence of N >= k items (whenever the start is not after it).
C11_NegativeEndIsInclusive ==
    \A n \in 0..MaxRows : \A k \in 1..n :
        (/\ ResolvedOnceFor(n)
         /\ RangeToNegativeEnd(k)
         /\ r_selector.start_idx \in 0..(n - k + 1))
            => r_selector.resolved_end_idx = n - k

\* C11 as amended: the end -k of a range clause resolves to the position
\* before N-k (0 when there is none), or the clause is marked as matching
\* nothing when its start lies after that; only a bare -k resolves to N-k.
C11_NegativeEndIsExclusive ==
    \A n \in 0..MaxRows : \A k \in 1..n :
        /\ (ResolvedOnceFor(n) /\ RangeToNegativeEnd(k))
              => LET last == IF n - k >= 1 THEN n - k - 1 ELSE 0
                 IN  \/ /\ r_selector.resolved_end_idx = last
                        /\ r_selector.resolved_start_idx <= last
                     \/ /\ r_selector.resolved_end_idx = UsizeMax
                        /\ r_selector.resolved_start_idx = UsizeMax
                        /\ r_selector.start_idx \notin 0..(last + 1)
                        /\ (r_selector.start_idx < 0 => n + r_selector.start_idx > last)
        /\ (ResolvedOnceFor(n) /\ r_selector.start_idx = 0 - k /\ r_selector.end_idx = 0 - k)
              => /\ r_selector.resolved_start_idx = n - k
                 /\ r_selector.resolved_end_idx = n - k

C11_Witness ==
    /\ r_clause = <<"1", ":", "-", "1">>
    /\ ResolvedOnceFor(MaxRows)
    /\ r_selector.resolved_start_idx = 0
    /\ r_selector.resolved_end_idx = MaxRows - 2

\* a freshly parsed copy of the clause, resolved for a sequence of length n
FreshlyResolved(n) == resolve_indices(parse_selectors(r_clause).selectors[1], n)

SameResolution(a, b) ==
    /\ a.resolved_start_idx = b.resolved_start_idx
    /\ a.resolved_end_idx = b.resolved_end_idx

\* C20 as claimed: after resolve_indices(L1); resolve_indices(L2) with
\* L2 # L1 the resolved indices are those of a fresh copy resolved for L2.
C20_SecondResolveReResolves ==
    (/\ Len(r_calls) = 2
     /\ r_calls[1].op = "resolve" /\ r_calls[2].op = "resolve"
     /\ r_calls[1].len # r_calls[2].len)
        => SameResolution(r_selector, FreshlyResolved(r_calls[2].len))

\* the calls of resolve_indices that found the Selector unresolved: the first
\* call, and every call that directly follows a reset_resolution
Resolving == { i \in 1..Len(r_calls) :
                 /\ r_calls[i].op = "resolve"
                 /\ (i = 1 \/ r_calls[i - 1].op = "reset") }

\* C20 as amended: resolve_indices re-resolves only a Selector that was
\* never resolved or that reset_resolution was called on since; then the
\* resolved indices are those of a fresh copy resolved for the new length.
\* Any other call of resolve_indices keeps the indices resolved before.
C20_ResolveAfterResetReResolves ==
    LET fresh == parse_selectors(r_clause).selectors[1]
        last  == IF Resolving = {} THEN 0
                 ELSE CHOOSE i \in Resolving : \A j \in Resolving : j <= i
    IN  /\ r_clause # <<>> /\ Resolving = {} => SameResolution(r_selector, fresh)
        /\ r_clause # <<>> /\ Resolving # {}
              => SameResolution(r_selector, FreshlyResolved(r_calls[last].len))

C20_Witness ==
    /\ r_clause = <<"-", "1">>
    /\ Len(r_calls) = 3
    /\ r_calls[1] = [op |-> "resolve", len |-> 1]
    /\ r_calls[2].op = "reset"
    /\ r_calls[3] = [op |-> "resolve", len |-> MaxRows]
    /\ r_selector.resolved_end_idx = MaxRows - 1

\* the row clauses one of whose bounds is the negative index n
ClausesWithBound(n) ==
    { n }
    \cup { n \o Colon \o b : b \in { <<>>, <<"2">> } }
    \cup { a \o Colon \o n : a \in { <<>>, <<"1">>, <<"p">> } }

\* C12: a clause with a negative index -k, k greater than the number of
\* rows, as its start or its end emits no row, and the run does not fail.
C12_OutOfRangeNegativeMatchesNothing ==
    \A k \in 1..(MaxRows + 1) :
        (/\ Scanning
         /\ args_rows \in ClausesWithBound(Minus \o IntStr(k))
         /\ k > Len(split_rows))
            => /\ emitted = <<>>
               /\ exit_code # 1

\* C13: a row clause a:b with a > b >= 1 selects no row, resolve_indices
\* marks it as matching nothing, and the run (its column expression being
\* well formed) ends without an error.
C13_StartAfterEndSelectsNothing ==
    \A a \in 1..MaxIdx, b \in 1..MaxIdx :
        (args_rows = Range2(a, b) /\ a > b /\ parse_selectors(args_columns).ok)
            => /\ emitted = <<>>
               /\ output = <<>>
               /\ exit_code # 1
               /\ pc # "exit"
               /\ (pc = "done" => exit_code = 0 /\ stdout = <<>>)
               /\ Scanning =>
                     LET sel == resolve_indices(row_selectors[1], Len(split_rows))
                     IN  /\ sel.resolved_start_idx = UsizeMax
                         /\ sel.resolved_end_idx = UsizeMax

C13_Witness ==
    /\ pc = "done" /\ args_rows = Range2(2, 1)
    /\ Len(split_rows) = MaxRows
    /\ emitted = <<>> /\ exit_code = 0

\* C16: when the row expression or the column expression does not parse,
\* the run ends with exit code 1 before the input is split: no row is
\* scanned and nothing is printed.
C16_ParseErrorAbortsBeforeScan ==
    (~parse_selectors(args_rows).ok \/ ~parse_selectors(args_columns).ok)
        => /\ pc \in {"parse_rows", "parse_columns", "exit"}
           /\ split_rows = <<>> /\ row_states = <<>> /\ row_idx = 0
           /\ emitted = <<>> /\ output = <<>> /\ stdout = <<>>
           /\ exit_code # 0
           /\ (pc = "exit" => exit_code = 1)

C16_Witness ==
    /\ pc = "exit" /\ exit_code = 1
    /\ parse_selectors(args_rows).ok /\ row_selectors # <<>>
    /\ ~parse_selectors(args_columns).ok
    /\ Len(input) >= 4
    /\ split_rows = <<>> /\ stdout = <<>>

\* a column expression was given and none of its clauses can match an item
\* of the header row: a pattern the row does not hold, an index past its end
NoColumnMatches ==
    /\ Len(split_rows) >= 1
    /\ \/ args_columns = <<"q">> /\ ~TextHasLetter(split_rows[1], "q")
       \/ args_columns = <<"2">> /\ Len(HeaderItems) < 2

\* C17: when column clauses are given and none matches a header item, the
\* run warns and succeeds: the rows selected are those the row clauses
\* select on their own, every emitted row has no cell, and the warning
\* tells the run from one without column clauses.
C17_NoColumnMatchIsWarning ==
    /\ (Scanning /\ row_idx >= 1 /\ NoColumnMatches)
          => /\ export_cols = <<>>
             /\ warning = "no_valid_columns"
             /\ exit_code # 1
             /\ \A n \in 1..Len(output) : output[n] = <<>>
             /\ Len(output) = Len(emitted)
             /\ pc = "done" =>
                   /\ exit_code = 0
                   /\ \A j \in 1..Len(row_selectors) :
                         RowMembers(j - 1) = ScanMembers(row_selectors[j], split_rows)
    /\ (Scanning /\ args_columns = <<>>) => warning = "none"

C17_Witness ==
    /\ pc = "done" /\ NoColumnMatches
    /\ args_columns = <<"2">>
    /\ Len(output) >= 2 /\ output[1] = <<>>
    /\ warning = "no_valid_columns"

\* C19: once the state of a row clause has stopped set, no later row is
\* emitted for that clause.
C19_StoppedClauseEmitsNoMore ==
    [][\A j \in 1..Len(row_states) :
          (row_states[j].stopped /\ Len(row_states') = Len(row_states))
              => RowMembers(j - 1)' = RowMembers(j - 1)]_vars

\* the comma-separated clauses of the expression parsed, and the
\* colon-separated components of one of them
ExprClauses == StrSplit(p_expr, ",")
Components(clause) == StrSplit(clause, ":")

IsInteger(t) ==
    LET body == IF Len(t) >= 1 /\ t[1] \in {"-", "+"} THEN Tail(t) ELSE t
    IN  Len(body) >= 1 /\ \A i \in 1..Len(body) : body[i] \in {"0", "1", "2", "3", "4", "5", "6", "7", "8", "9"}

IsPositiveInteger(t) == IsInteger(t) /\ t[1] # "-" /\ \E i \in 1..Len(t) : t[i] \in {"1", "2", "3", "4", "5", "6", "7", "8", "9"}

\* the third component is there, not empty, and not an integer >= 1
BadStep(clause) ==
    /\ Len(Components(clause)) >= 3
    /\ Components(clause)[3] # <<>>
    /\ ~IsPositiveInteger(Components(clause)[3])

\* C14 as claimed: an expression with a clause whose (non-empty) third
\* component is not a positive integer is rejected with an error that
\* carries the text of a clause of the expression, and no clause list.
C14_BadStepErrorNamesClause ==
    (p_done /\ \E k \in 1..Len(ExprClauses) : BadStep(ExprClauses[k]))
        => /\ ~p_result.ok
           /\ "selectors" \notin DOMAIN p_result
           /\ "selector" \in DOMAIN p_result
           /\ \E k \in 1..Len(ExprClauses) : p_result.selector = ExprClauses[k]

\* the pattern components (not empty, not an integer) at the first or second
\* place of the clause that do not compile
UncompiledAt(clause) ==
    { i \in 1..Len(Components(clause)) :
        /\ i <= 2
        /\ Components(clause)[i] # <<>>
        /\ ~IsInteger(Components(clause)[i])
        /\ \E j \in 1..Len(Components(clause)[i]) : Components(clause)[i][j] = "(" }

\* a non-empty component after the third
PastThird(clause) == \E i \in 4..Len(Components(clause)) : Components(clause)[i] # <<>>

Malformed(clause) == UncompiledAt(clause) # {} \/ BadStep(clause) \/ PastThird(clause)

\* C14 as amended: such an expression is rejected without a clause list; the
\* error is that of the first malformed clause: InvalidRegex carrying the
\* pattern when one of its first two components does not compile, otherwise
\* InvalidSelector carrying the text of that clause.
C14_BadStepIsRejected ==
    (p_done /\ \E k \in 1..Len(ExprClauses) : BadStep(ExprClauses[k]))
        => LET first  == SetMin({ k \in 1..Len(ExprClauses) : Malformed(ExprClauses[k]) })
               clause == ExprClauses[first]
           IN  /\ ~p_result.ok
               /\ "selectors" \notin DOMAIN p_result
               /\ IF UncompiledAt(clause) # {}
                  THEN /\ p_result.kind = "InvalidRegex"
                       /\ p_result.pattern =
                             CaseInsensitiveRegex(Components(clause)[SetMin(UncompiledAt(clause))])
                  ELSE /\ p_result.kind = "InvalidSelector"
                       /\ p_result.selector = clause

C14_Witness ==
    /\ p_done
    /\ p_expr = <<"2", ",", "1", ":", "2", ":", "0">>
    /\ p_result.kind = "InvalidSelector"
    /\ p_result.selector = <<"1", ":", "2", ":", "0">>

\* C15: an expression with a clause of more than three colon-separated
\* components, whatever they hold, is rejected with an error naming a clause.
C15_MoreThanThreeComponentsRejected ==
    (p_done /\ \E k \in 1..Len(ExprClauses) : Len(Components(ExprClauses[k])) > 3)
        => /\ ~p_result.ok
           /\ p_result.kind = "InvalidSelector"
           /\ \E k \in 1..Len(ExprClauses) : p_result.selector = ExprClauses[k]

\* the header row holds no item: it is empty or made of blanks
HeaderIsBlank == \A i \in 1..Len(g_row) : g_row[i] \in {" ", "\t", "\n"}

\* C18 as claimed: with column clauses and a header row without items,
\* get_columns reports an error.
C18_EmptyHeaderIsError ==
    (HeaderIsBlank /\ g_selectors # <<>>)
        => \A n \in 1..Len(g_results) : ~g_results[n].ok

\* C18 as amended: with column clauses and a header row without items,
\* get_columns succeeds and returns the empty column index list.
C18_EmptyHeaderSelectsNothing ==
    (HeaderIsBlank /\ g_selectors # <<>>)
        => \A n \in 1..Len(g_results) : g_results[n] = [ok |-> TRUE, cols |-> <<>>]

C18_Witness ==
    /\ g_row = <<" ", "\t">>
    /\ g_expr = <<"1", ":", "2">>
    /\ Len(g_results) = MaxScans
    /\ g_results[1] = [ok |-> TRUE, cols |-> <<>>]

\* the items of the row emitted as the n-th output row
EmittedItems(n) == split(split_rows[emitted[n][1] + 1], ColumnDelimiter)

\* the exported column indices that exist in a row of that many items, as collected
CollectedIn(n_items) ==
    LET F[k \in 0..Len(export_cols)] ==
            IF k = 0 THEN <<>>
            ELSE F[k - 1] \o (IF export_cols[k] < n_items THEN <<export_cols[k]>> ELSE <<>>)
    IN  F[Len(export_cols)]

\* C21 as claimed: with column clauses, an emitted row has one cell per
\* collected column index that exists in the row, in the order collected
\* (an index collected twice gives its cell twice).
C21_OneCellPerCollectedIndex ==
    (Scanning /\ args_columns # <<>>)
        => \A n \in 1..Len(output) :
              LET items == EmittedItems(n)
                  idxs  == CollectedIn(Len(items))
              IN  output[n] = [k \in 1..Len(idxs) |-> items[idxs[k] + 1]]

\* the items at the positions of S, in row order, each once
ItemsAt(items, S) ==
    LET F[i \in 0..Len(items)] ==
            IF i = 0 THEN <<>>
            ELSE F[i - 1] \o (IF (i - 1) \in S THEN <<items[i]>> ELSE <<>>)
    IN  F[Len(items)]

\* C21 as amended: with column clauses, the cells of an emitted row are the
\* row's items whose position is among the exported column indices, in row
\* order and each once, however often its index was collected.
C21_CellsAtExportedPositions ==
    (Scanning /\ args_columns # <<>>)
        => /\ Len(output) = Len(emitted)
           /\ \A n \in 1..Len(output) :
                 output[n] = ItemsAt(EmittedItems(n),
                                     { export_cols[k] : k \in 1..Len(export_cols) })

C21_Witness ==
    /\ pc = "done"
    /\ args_columns = <<"1", ",", "1">>
    /\ export_cols = <<0, 0>>
    /\ Len(output) >= 2
    /\ output[1] = <<EmittedItems(1)[1]>>
    /\ Len(EmittedItems(1)) >= 2

\* the clause the empty text parses to
DefaultClause(sel) ==
    /\ sel.start_idx = 0 /\ sel.end_idx = I64Max /\ sel.step = 1
    /\ sel.start_regex = <<".", "^">> /\ sel.end_regex = <<".", "^">>

\* C22: an accepted expression gives one clause per comma-separated part, in
\* the order of the parts; an empty part (the empty expression is one empty
\* part) gives the default clause.
C22_OneClausePerPart ==
    (p_done /\ p_result.ok)
        => /\ Len(p_result.selectors) = CountChar(p_expr, ",") + 1
           /\ \A k \in 1..Len(p_result.selectors) :
                 /\ p_result.selectors[k] = parse_selectors(ExprClauses[k]).selectors[1]
                 /\ ExprClauses[k] = <<>> => DefaultClause(p_result.selectors[k])
           /\ p_expr = <<>> => Len(p_result.selectors) = 1

C22_Witness ==
    /\ p_done /\ p_expr = <<"2", ",", ",", "1", ":", "2">>
    /\ Len(p_result.selectors) = 3
    /\ p_result.selectors[1].start_idx = 2
    /\ DefaultClause(p_result.selectors[2])
    /\ p_result.selectors[3].end_idx = 2

\* the integer a component is written for
IsIntegerOf(t, n) ==
    \/ n >= 0 /\ t \in { IntStr(n), <<"+">> \o IntStr(n) }
    \/ n <= 0 /\ t = <<"-">> \o IntStr(0 - n)

SmallInts == (0 - 9)..9

C24_ColonClauseFields ==
    (p_done /\ p_result.ok)
        => \A k \in 1..Len(p_result.selectors) :
              LET comps == Components(ExprClauses[k])
                  sel   == p_result.selectors[k]
              IN  Len(comps) >= 2
                     => /\ \A n \in SmallInts : IsIntegerOf(comps[1], n) => sel.start_idx = n
                        /\ comps[1] = <<>> => sel.start_idx = 0
                        /\ \A n \in SmallInts : IsIntegerOf(comps[2], n) => sel.end_idx = n
                        /\ comps[2] = <<>> => sel.end_idx = I64Max
                        /\ Len(comps) >= 3 =>
                              \A n \in SmallInts : IsIntegerOf(comps[3], n) => n >= 1 /\ sel.step = n
                        /\ (Len(comps) = 2 \/ comps[3] = <<>>) => sel.step = 1
                        /\ (comps[1] = <<>> \/ IsInteger(comps[1])) => sel.start_regex = <<".", "^">>
                        /\ (comps[2] = <<>> \/ IsInteger(comps[2])) => sel.end_regex = <<".", "^">>

C24_Witness ==
    /\ p_done /\ p_expr = <<"2", ":", ":", "2">>
    /\ p_result.ok
    /\ p_result.selectors[1].start_idx = 2
    /\ p_result.selectors[1].end_idx = I64Max
    /\ p_result.selectors[1].step = 2

\* the item holds the characters of the component, letters in either case
SameLetter(a, b) == a = b \/ ToLower(a) = b \/ a = ToLower(b)
HoldsText(item, t) ==
    \E off \in 0..(Len(item) - Len(t)) : \A i \in 1..Len(t) : SameLetter(item[off + i], t[i])

\* an expression that is one component, not empty and not an integer
OnePattern == p_expr # <<>> /\ ~IsInteger(p_expr) /\ \A i \in 1..Len(p_expr) : p_expr[i] \notin {":", ","}

Separators == IF s_delimiter = {} THEN {"\n"} ELSE s_delimiter

\* the text as it is cut: split by lines, a carriage return right before a
\* line feed belongs to the line ending and is left out
CutText ==
    LET Kept(i) == ~(s_delimiter = {} /\ s_text[i] = "\r"
                     /\ i < Len(s_text) /\ s_text[i + 1] = "\n")
        F[i \in 0..Len(s_text)] ==
            IF i = 0 THEN <<>>
            ELSE F[i - 1] \o (IF Kept(i) THEN <<s_text[i]>> ELSE <<>>)
    IN  F[Len(s_text)]

\* the characters of t that are not separators, in order
WithoutSeparators(t) ==
    LET F[i \in 0..Len(t)] ==
            IF i = 0 THEN <<>>
            ELSE F[i - 1] \o (IF t[i] \in Separators THEN <<>> ELSE <<t[i]>>)
    IN  F[Len(t)]

\* all the items one after the other
Concat(items) ==
    LET F[i \in 0..Len(items)] == IF i = 0 THEN <<>> ELSE F[i - 1] \o items[i]
    IN  F[Len(items)]

\* the positions of t where a piece starts
PieceStarts(t) ==
    { i \in 1..Len(t) : t[i] \notin Separators /\ (i = 1 \/ t[i - 1] \in Separators) }

\* C26: the items utils::split returns are the non-empty pieces of the text
\* between the delimiter matches (the non-empty lines when the delimiter is
\* empty), in the order of the text; none is empty; a text of delimiters
\* only, or the empty text, gives no item.
C26_SplitGivesNonEmptyPieces ==
    s_done
        => /\ \A i \in 1..Len(s_result) :
                 /\ s_result[i] # <<>>
                 /\ \A j \in 1..Len(s_result[i]) : s_result[i][j] \notin Separators
           /\ Concat(s_result) = WithoutSeparators(CutText)
           /\ Len(s_result) = Cardinality(PieceStarts(CutText))
           /\ (\A i \in 1..Len(s_text) : s_text[i] \in Separators) => s_result = <<>>

C26_Witness ==
    /\ s_done
    /\ s_text = <<",", "a", ",", ",">>
    /\ s_delimiter = {","}
    /\ s_result = << <<"a">> >>

\* C27: for the row clause p:b (start pattern p, end index b >= 1) every
\* emitted row that does not hold p lies at a position <= b-1.
C27_EndIndexLimitsPatternStart ==
    \A p \in PatternComps : \A b \in 1..MaxIdx :
        (Scanning /\ args_rows = p \o Colon \o IntStr(b))
            => \A i \in RowMembers(0) :
                  TextHasLetter(split_rows[i + 1], p[1]) \/ i <= b - 1

\* C28 as claimed: a negative start -k and a bare -k resolve to N-k
\* (1 <= k <= N), the negative end -k of a range to N-k-1 (1 <= k < N).
C28_NegativeIndexPositions ==
    \A n \in 0..MaxRows : \A k \in 1..n :
        ResolvedOnceFor(n)
            => /\ r_selector.start_idx = 0 - k => r_selector.resolved_start_idx = n - k
               /\ (r_selector.start_idx = 0 - k /\ r_selector.end_idx = 0 - k)
                     => r_selector.resolved_end_idx = n - k
               /\ (RangeToNegativeEnd(k) /\ k < n)
                     => r_selector.resolved_end_idx = n - k - 1

\* the clause is resolved as matching nothing
ResolvedEmpty ==
    /\ r_selector.resolved_start_idx = UsizeMax
    /\ r_selector.resolved_end_idx = UsizeMax

\* C28 as amended: unless the clause is resolved as matching nothing (its
\* end is a negative index out of range, or its start lies after its end),
\* a negative start -k and a bare -k resolve to N-k and the negative end -k
\* of a range to N-k-1, to 0 when k = N.
C28_NegativeIndexPositionsUnlessEmpty ==
    \A n \in 0..MaxRows : \A k \in 1..n :
        ResolvedOnceFor(n)
            => /\ r_selector.start_idx = 0 - k
                     => \/ r_selector.resolved_start_idx = n - k
                        \/ /\ ResolvedEmpty
                           /\ r_selector.end_idx # 0 - k
                           /\ r_selector.end_idx # I64Max
                           /\ r_selector.end_idx <= n - k
               /\ (r_selector.start_idx = 0 - k /\ r_selector.end_idx = 0 - k)
                     => /\ r_selector.resolved_start_idx = n - k
                        /\ r_selector.resolved_end_idx = n - k
               /\ RangeToNegativeEnd(k)
                     => \/ r_selector.resolved_end_idx = (IF k = n THEN 0 ELSE n - k - 1)
                        \/ /\ ResolvedEmpty
                           /\ r_selector.start_idx \notin {0, 1}

C28_Witness ==
    /\ r_clause = <<"-", "1", ":">>
    /\ ResolvedOnceFor(MaxRows)
    /\ r_selector.resolved_start_idx = MaxRows - 1
    /\ r_selector.resolved_end_idx = UsizeMax

\* the number of items of the header row
HeaderLen == Len(split(g_row, ColumnDelimiter))

\* the positions a-1, a-1+s, a-1+2s, ... up to min(b, N)-1
SteppedPositions(a, b, st, n) ==
    { i \in 0..(n - 1) : i >= a - 1 /\ i <= b - 1 /\ (i - (a - 1)) % st = 0 }

\* the sequence lists exactly the positions of S, in increasing order
ListsInOrder(cols, S) ==
    /\ { cols[k] : k \in 1..Len(cols) } = S
    /\ \A k \in 1..(Len(cols) - 1) : cols[k] < cols[k + 1]

\* C29: the legacy matcher, scanning the header items in order with a fresh
\* index clause a:b:s (a:b is step 1, a bare k is k:k), 1 <= a <= b, reports
\* the positions a-1, a-1+s, ... not past min(b, N)-1 and no other.
C29_LegacyIndexClauseMembers ==
    \A a \in 1..MaxIdx, b \in 1..MaxIdx :
        (a <= b /\ Len(g_results) >= 1)
            => /\ \A st \in 1..MaxStep :
                     g_expr = Range3(a, b, st)
                        => ListsInOrder(g_results[1].cols, SteppedPositions(a, b, st, HeaderLen))
               /\ g_expr = Range2(a, b)
                     => ListsInOrder(g_results[1].cols, SteppedPositions(a, b, 1, HeaderLen))
               /\ (a = b /\ g_expr = IntStr(a))
                     => ListsInOrder(g_results[1].cols, SteppedPositions(a, a, 1, HeaderLen))

C29_Witness ==
    /\ g_expr = Range3(1, 3, 2)
    /\ HeaderLen = 3
    /\ Len(g_results) >= 1
    /\ g_results[1].cols = <<0, 2>>

\* C30: two scans of the same header row through get_columns with the same
\* clauses, not parsed again in between, return the same column indices.
C30_SecondScanReturnsTheSame ==
    Len(g_results) >= 2 => g_results[2] = g_results[1]

\* C31: on the first scan with a fresh clause a:q (index start, pattern end)
\* the legacy matcher reports no position below a-1, even where the item
\* matches the end pattern.
C31_NoMemberBeforeIndexStart ==
    \A a \in 1..MaxIdx : \A q \in PatternComps :
        (g_expr = IntStr(a) \o Colon \o q /\ Len(g_results) >= 1)
            => \A k \in 1..Len(g_results[1].cols) : g_results[1].cols[k] >= a - 1

\* C32: on the first scan of N header items with a fresh range clause whose
\* end is the negative index -k, 1 <= k <= N, no position >= N-k is
\* reported: the end is exclusive, and with k = N nothing is selected.
C32_NegativeEndExcludesFromThere ==
    \A a \in { <<>>, <<"1">> } : \A k \in 1..(MaxRows + 1) :
        (/\ g_expr = a \o Colon \o Minus \o IntStr(k)
         /\ Len(g_results) >= 1
         /\ k <= HeaderLen)
            => \A c \in 1..Len(g_results[1].cols) : g_results[1].cols[c] < HeaderLen - k

\* the positions clause k of the expression reports when it scans the header
\* row alone, freshly parsed
ClauseReports(k) ==
    LET cols == get_columns(g_row, <<parse_selectors(g_expr).selectors[k]>>, ColumnDelimiter).cols
    IN  { cols[j] : j \in 1..Len(cols) }

Occurrences(cols, i) == Cardinality({ j \in 1..Len(cols) : cols[j] = i })

\* C33: get_columns lists the column indices in non-decreasing position,
\* whatever the order of the clauses, and on a first scan a position appears
\* once for every clause that reports it.
C33_ColumnsInPositionOrderOncePerClause ==
    /\ \A r \in 1..Len(g_results) :
          \A j \in 1..(Len(g_results[r].cols) - 1) :
              g_results[r].cols[j] <= g_results[r].cols[j + 1]
    /\ Len(g_results) >= 1
          => \A i \in 0..HeaderLen :
                Occurrences(g_results[1].cols, i)
                    = Cardinality({ k \in 1..Len(parse_selectors(g_expr).selectors) :
                                      i \in ClauseReports(k) })

C33_Witness ==
    /\ g_row = <<"x", " ", "q">>
    /\ g_expr = <<"2", ",", "1", ":", "2">>
    /\ Len(g_results) >= 1
    /\ g_results[1].cols = <<0, 1, 1>>

\* the cells of the row of the direct call
RowCells == split(c_row, ColumnDelimiter)

\* C34: with indices to select, get_cells returns the cells of the row whose
\* position is among them, in increasing position and each once, whatever
\* the order of the indices; indices the row does not have are ignored.
C34_CellsAtSelectedPositions ==
    (c_done /\ Len(c_cells_to_select) > 0)
        => c_result = ItemsAt(RowCells, { c_cells_to_select[k] : k \in 1..Len(c_cells_to_select) })

C34_Witness ==
    /\ c_done
    /\ c_row = <<"a", " ", "b", " ", "c">>
    /\ c_cells_to_select = <<2, 4, 0>>
    /\ c_result = << <<"a">>, <<"c">> >>

\* the clause texts of the expression of the direct call
InfoParts == StrSplit(i_expr, ",")

\* a clause text without the blanks written around it
Unpadded(t) == SelectSeq(t, LAMBDA ch : ch # " ")

\* clause k, freshly parsed, reports no item of the header row
ReportsNothing(k) ==
    get_columns(i_row, <<parse_selectors(i_expr).selectors[k]>>, ColumnDelimiter).cols = <<>>

\* the texts of the clauses that report nothing, in clause order
SilentClauses ==
    LET F[k \in 0..Len(InfoParts)] ==
            IF k = 0 THEN <<>>
            ELSE F[k - 1] \o (IF ReportsNothing(k) THEN <<Unpadded(InfoParts[k])>> ELSE <<>>)
    IN  F[Len(InfoParts)]

\* C35: get_columns_with_match_info lists as unmatched exactly the trimmed
\* texts of the clauses that reported no header column, in clause order, and
\* returns two empty lists for an empty clause list.
C35_UnmatchedAreTheSilentClauses ==
    i_done
        => /\ Len(i_selectors) = 0 => i_result = [cols |-> <<>>, unmatched |-> <<>>]
           /\ Len(i_selectors) > 0 => i_result.unmatched = SilentClauses

C35_Witness ==
    /\ i_done
    /\ i_row = <<"p", " ", "x", " ", "q">>
    /\ i_expr = <<"3", ",", " ", "x", ",", "q", " ">>
    /\ i_result = [cols |-> <<2>>, unmatched |-> << <<"x">>, <<"q">> >>]

\* the positions lo, lo+1, ..., hi in increasing order (none when lo > hi)
Positions(lo, hi) == [j \in 1..(IF hi >= lo THEN hi - lo + 1 ELSE 0) |-> lo + j - 1]

\* C36: through get_columns an index clause selects existing positions only
\* and never fails: a fresh range a:b with b past the N header items gives
\* a-1..N-1, a fresh bare index k > N gives nothing, and a header row
\* without items gives the empty list for every clause list.
C36_IndexClauseSelectsExistingPositions ==
    /\ \A r \in 1..Len(g_results) :
          /\ g_results[r].ok
          /\ HeaderLen = 0 => g_results[r].cols = <<>>
    /\ Len(g_results) >= 1
          => \A a \in 1..MaxIdx :
                /\ (a > HeaderLen /\ g_expr = IntStr(a)) => g_results[1].cols = <<>>
                /\ \A b \in 1..MaxIdx :
                      (b > HeaderLen /\ g_expr = Range2(a, b))
                          => g_results[1].cols = Positions(a - 1, HeaderLen - 1)

C36_Witness ==
    /\ g_row = <<"x", " ", "q">>
    /\ g_expr = Range2(1, 3)
    /\ Len(g_results) >= 1
    /\ g_results[1] = [ok |-> TRUE, cols |-> <<0, 1>>]

\* the column expression is one clause whose start is the index 0
StartsAtZero ==
    /\ Len(g_expr) >= 1
    /\ g_expr[1] = "0"
    /\ Len(g_expr) = 1 \/ g_expr[2] = ":"

\* the same clause with the start written 1
WithStartOne == <<"1">> \o Tail(g_expr)

\* C37: the clause 0 is accepted and selects what the clause 1 selects, and
\* 0:b what 1:b selects, for both matchers scanning the header items in
\* order.
C37_IndexZeroIsIndexOne ==
    StartsAtZero
        => /\ parse_selectors(g_expr).ok
           /\ ScanMembers(parse_selectors(g_expr).selectors[1], split(g_row, ColumnDelimiter))
                 = ScanMembers(parse_selectors(WithStartOne).selectors[1],
                               split(g_row, ColumnDelimiter))
           /\ Len(g_results) >= 1
                 => g_results[1].cols
                       = get_columns(g_row, parse_selectors(WithStartOne).selectors,
                                     ColumnDelimiter).cols

C37_Witness ==
    /\ g_row = <<"p", " ", "x", " ", "q">>
    /\ g_expr = <<"0", ":", "2">>
    /\ Len(g_results) >= 1
    /\ g_results[1].cols = <<0, 1>>

\* the column indices the column clauses report on the first row of the input
FirstRowColumns ==
    get_columns_with_match_info_immutable(split_rows[1], column_selectors,
                                          ColumnDelimiter, args_columns).cols

\* once the first row has been handled, export_cols holds the columns of the
\* first row and every row emitted so far was projected with them
ColumnsAreThoseOfFirstRow ==
    (pc \in {"loop", "done"} /\ row_idx >= 1)
        => /\ export_cols = FirstRowColumns
           /\ \A n \in 1..Len(output) :
                 output[n] = get_cells(split_rows[emitted[n][1] + 1], FirstRowColumns,
                                       ColumnDelimiter, select_full_row)

\* export_cols is written by the step that handles the first row and by no
\* other step
ColumnsSetOnFirstRowOnly ==
    export_cols' # export_cols => (pc = "loop" /\ row_idx = 0)

\* C38: main computes the exported column indices once, from the first row
\* of the input, whether or not that row is selected, before any row is
\* projected; they never change afterwards and project every emitted row.
C38_ColumnsComputedOnceFromFirstRow ==
    /\ []ColumnsAreThoseOfFirstRow
    /\ [][ColumnsSetOnFirstRowOnly]_vars

C38_Witness ==
    /\ pc = "done"
    /\ Len(export_cols) >= 1
    /\ Len(emitted) >= 1
    /\ emitted[1][1] >= 1
    /\ split_rows[emitted[1][1] + 1] # split_rows[1]
    /\ Len(output[1]) >= 1

\* the clause is one pattern: written alone, or as both start and end
SinglePatternClause ==
    \E c \in PatternComps : m_clause = c \/ m_clause = c \o Colon \o c

\* C39: a call of item_in_sequence_with_state leaves the clause as it was
\* parsed; it leaves the SelectionState as it was when it reports no
\* membership, and for a single-pattern clause whatever it reports.
C39_StateKeptUnlessRangeMember ==
    (m_fn = "state" /\ m_last.idx >= 0)
        => /\ m_selector = parse_selectors(m_clause).selectors[1]
           /\ ~m_last.in_sequence => m_state = m_last.state_before
           /\ SinglePatternClause => m_state = m_last.state_before

C39_Witness ==
    /\ m_fn = "state"
    /\ m_clause = <<"p">>
    /\ m_last.idx = 1
    /\ m_last.in_sequence
    /\ m_last.state_before.current_start_idx = 0
    /\ m_state = m_last.state_before

====
